---- MODULE Spec2Model ----
(***************************************************************************)
(* Model of the MPD protocol client of rmpc (src/mpd/proto_client.rs).     *)
(* The wire is a byte stream; a byte is a one-character string.  The       *)
(* client's read side holds the bytes that have arrived and are not yet    *)
(* consumed; the server's answer to a written command is appended to it.   *)
(***************************************************************************)
EXTENDS Integers, Sequences, FiniteSets, TLC

(***************************************************************************)
(* Bounds of the model.                                                    *)
(***************************************************************************)
MaxCuts == 1
MaxFails == 2
PayloadLen == 3
MaxChunk == 2
MaxDigits == 9
MaxTail == 2
MaxLines == 2
MaxRound == 2
MaxCloses == 2
MaxLoopEvents == 2
MaxUpdates == 2
MaxLogs == 1
MaxIdleCalls == 3
MaxFilter == 2
MaxLrcLines == 3

(***************************************************************************)
(* Byte strings.                                                           *)
(***************************************************************************)
NL == "\n"
sOK == <<"O","K">>
sListOK == <<"l","i","s","t","_","O","K">>
\* variant: another prefix is taken for that of a failure line
sNAK == <<"N","A","K">>

sACK == <<"A","C","K">>
sSize == <<"s","i","z","e">>
sType == <<"t","y","p","e">>
\* variant: another key is taken for the one that ends the preamble
sBinaryIdc == <<"i","d","c">>

sBinary == <<"b","i","n","a","r","y">>
sValA == <<"v","a","l","_","a">>
sValB == <<"v","a","l","_","b">>
sFail == <<"f","a","i","l">>

DigitChars == <<"0","1","2","3","4","5","6","7","8","9">>

IsDigit(c) == \E i \in 1..10 : DigitChars[i] = c

DigitVal(c) == (CHOOSE i \in 1..10 : DigitChars[i] = c) - 1

\* format!("{}", n) of an unsigned integer: its decimal digits
RECURSIVE Decimal(_)
Decimal(n) ==
  IF n < 10 THEN <<DigitChars[n + 1]>>
  ELSE Decimal(n \div 10) \o <<DigitChars[(n % 10) + 1]>>

RECURSIVE DigitsValue(_)
DigitsValue(s) ==
  IF s = <<>> THEN 0
  ELSE 10 * DigitsValue(SubSeq(s, 1, Len(s) - 1)) + DigitVal(s[Len(s)])

\* str::parse of an unsigned integer: -1 stands for Err.  Strings of more
\* than MaxDigits digits never occur on the wire of this model.
ParseUnsigned(s) ==
  IF s = <<>> \/ (\E i \in 1..Len(s) : ~IsDigit(s[i])) THEN -1
  ELSE IF Len(s) > MaxDigits THEN -1
  ELSE DigitsValue(s)

\* variant: the prefix has to be the whole line
StartsWithWhole(s, p) == s = p \/ s = p \o <<"\n">>

\* str::starts_with
StartsWith(s, p) == Len(s) >= Len(p) /\ SubSeq(s, 1, Len(p)) = p

\* index of the first occurrence of byte c in s, 0 when there is none; x is
\* s, evaluated once
IndexOf(s, c) ==
  CHOOSE k \in {IF \E i \in 1..Len(x) : x[i] = c
                THEN CHOOSE i \in 1..Len(x) : x[i] = c /\ \A j \in 1..(i - 1) : x[j] # c
                ELSE 0 : x \in {s}} : TRUE

Drop(s, n) == SubSeq(s, n + 1, Len(s))

Take(s, n) == SubSeq(s, 1, n)

Min(a, b) == IF a < b THEN a ELSE b

UpperChars == <<"S","T","B">>
LowerChars == <<"s","t","b">>

\* char::to_lowercase on the letters the wire of this model can carry
ToLowerChar(c) ==
  IF \E i \in 1..Len(UpperChars) : UpperChars[i] = c
  THEN LowerChars[CHOOSE i \in 1..Len(UpperChars) : UpperChars[i] = c]
  ELSE c

ToLowercase(s) == [i \in 1..Len(s) |-> ToLowerChar(s[i])]

(***************************************************************************)
(* Results.  Ok values and MpdError values are records tagged by t.        *)
(***************************************************************************)
Pending == [t |-> "Pending"]
OkUnit == [t |-> "Ok"]
OkObj(o) == [t |-> "OkObj", obj |-> o]
OkNone == [t |-> "OkNone"]
OkBuf(b) == [t |-> "OkBuf", buf |-> b]
ErrClientClosed == [t |-> "Err", kind |-> "ClientClosed"]
ErrMpd(f) == [t |-> "Err", kind |-> "Mpd", failure |-> f]
ErrGeneric(what, text) == [t |-> "Err", kind |-> "Generic", what |-> what, text |-> text]
ErrParse(text) == [t |-> "Err", kind |-> "Parse", text |-> text]
ErrIo(k) == [t |-> "Err", kind |-> "Io", io |-> k]
ErrValueExpected == [t |-> "Err", kind |-> "ValueExpected"]

\* variant: every error is taken for connection-closed
IsClosedErrAny(r) == r.t = "Err"

\* the pattern Err(MpdError::ClientClosed) of the match arms
IsClosedErr(r) == r.t = "Err" /\ r.kind = "ClientClosed"

(***************************************************************************)
(* MpdFailureResponse::from_str: "ACK [code@index] {command} message".     *)
(***************************************************************************)
ErrorCodeOf(n) ==
  CASE n = 1 -> "NotList"
    [] n = 2 -> "Argument"
    [] n = 3 -> "Password"
    [] n = 4 -> "Permission"
    [] n = 5 -> "UnknownCmd"
    [] n = 50 -> "NoExist"
    [] n = 51 -> "PlaylistMax"
    [] n = 52 -> "System"
    [] n = 53 -> "PlaylistLoad"
    [] n = 54 -> "UpdateAlready"
    [] n = 55 -> "PlayerSync"
    [] n = 56 -> "Exist"
    [] OTHER -> "Unknown"

StripNewline(s) ==
  IF s # <<>> /\ s[Len(s)] = NL THEN SubSeq(s, 1, Len(s) - 1) ELSE s

\* the bytes of s before its first byte c, and those after it
Before(s, c) == Take(s, IndexOf(s, c) - 1)

After(s, c) == Drop(s, IndexOf(s, c))

Has(s, c) == IndexOf(s, c) > 0

StripSpace(s) == IF s # <<>> /\ s[1] = " " THEN Drop(s, 1) ELSE s

\* the record built from the fields of the line, all of them found
FailureOf(line, code, idx, cmd, msg) ==
  IF code = -1 \/ idx = -1 \/ ErrorCodeOf(code) = "Unknown"
  THEN ErrParse(line)
  ELSE ErrMpd([code |-> ErrorCodeOf(code), command_list_index |-> idx,
               command |-> cmd, message |-> StripNewline(StripSpace(msg))])

\* the fields after "[code@": a2 is "index] {command} message"
FailureTail(line, code, a2) ==
  IF ~Has(a2, "]") \/ ~Has(After(a2, "]"), "{")
     \/ ~Has(After(After(a2, "]"), "{"), "}")
  THEN ErrParse(line)
  ELSE FailureOf(line, code, ParseUnsigned(Before(a2, "]")),
                 Before(After(After(a2, "]"), "{"), "}"),
                 After(After(After(a2, "]"), "{"), "}"))

FailureFromStr(line) ==
  IF ~Has(line, "[") \/ ~Has(After(line, "["), "@")
  THEN ErrParse(line)
  ELSE FailureTail(line, ParseUnsigned(Before(After(line, "["), "@")),
                   After(After(line, "["), "@"))

(***************************************************************************)
(* ProtoClient::read_line.  rd is the unread bytes of the reader and eof   *)
(* what a read meets once rd is used up: "closed" (end of stream),         *)
(* "pipe" (broken-pipe error) or "timeout" (any other I/O error).          *)
(***************************************************************************)
MpdLineOk == [t |-> "LineOk"]
\* variant: the content of the line is dropped
MpdLineValueEmpty(v) == [t |-> "LineValue", val |-> <<>>]

\* MpdLine::Value(line)
MpdLineValue(v) == [t |-> "LineValue", val |-> v]

\* BufRead::read_line: the bytes up to and including the first newline, or
\* all of rd when the stream ends first; err is the I/O error met, if any
BufReadLine(rd, eof) ==
  IF Has(rd, NL)
  THEN [line |-> Take(rd, IndexOf(rd, NL)), rest |-> After(rd, NL), err |-> "none"]
  ELSE IF eof = "closed" THEN [line |-> rd, rest |-> <<>>, err |-> "none"]
  ELSE [line |-> rd, rest |-> <<>>, err |-> eof]

\* variant: the io error is handed on as it is
ClassifyIoErrorAsIo(err) == ErrIo(err)

\* the match on the io result at the top of read_line
ClassifyIoError(err) ==
  IF err = "pipe" THEN ErrClientClosed ELSE ErrClientClosed

\* line.pop()
Pop(s) == IF s = <<>> THEN s ELSE SubSeq(s, 1, Len(s) - 1)

\* the body of read_line after self.read_line(&mut line): r is what the
\* buffered reader gave
LineOf(r) ==
  IF r.err # "none" THEN [res |-> ClassifyIoError(r.err), rest |-> r.rest]
  ELSE IF Len(r.line) = 0 THEN [res |-> ErrClientClosed, rest |-> r.rest]
  ELSE IF StartsWith(r.line, sOK) \/ StartsWith(r.line, sListOK)
       THEN [res |-> MpdLineOk, rest |-> r.rest]
  ELSE IF StartsWith(r.line, sACK)
       THEN [res |-> FailureFromStr(r.line), rest |-> r.rest]
  ELSE [res |-> MpdLineValue(Pop(r.line)), rest |-> r.rest]

\* r is what the buffered reader gave, evaluated once
read_line(rd, eof) == CHOOSE l \in {LineOf(r) : r \in {BufReadLine(rd, eof)}} : TRUE

(***************************************************************************)
(* The decoding contract: split_line, FromMpd::next and the decodable      *)
(* object of the tests, TestMpdObject.                                     *)
(***************************************************************************)
split_line(line) ==
  IF ~Has(line, ":") THEN [ok |-> FALSE, key |-> <<>>, value |-> <<>>]
  ELSE [ok |-> TRUE, key |-> Before(line, ":"), value |-> Drop(After(line, ":"), 1)]

DefaultObject == [val_a |-> <<>>, val_b |-> <<>>]

\* variant: val_b also resets val_a, so the order of the lines matters
next_internal_ordered(obj, key, value) ==
  IF key = sFail THEN [obj |-> obj, err |-> "intentional fail"]
  ELSE IF key = sValA THEN [obj |-> [obj EXCEPT !.val_a = value], err |-> "none"]
  ELSE IF key = sValB
       THEN [obj |-> [obj EXCEPT !.val_b = value, !.val_a = <<>>], err |-> "none"]
  ELSE [obj |-> obj, err |-> "unknown value"]

\* TestMpdObject::next_internal: err is the failure, "none" when handled
next_internal(obj, key, value) ==
  IF key = sFail THEN [obj |-> obj, err |-> "intentional fail"]
  ELSE IF key = sValA THEN [obj |-> [obj EXCEPT !.val_a = value], err |-> "none"]
  ELSE IF key = sValB THEN [obj |-> [obj EXCEPT !.val_b = value], err |-> "none"]
  ELSE [obj |-> obj, err |-> "unknown value"]

\* FromMpd::next: res is Pending when the line was consumed, else the error
\* the outcome of next_internal turned into that of next
NextOf(obj, r) ==
  IF r.err # "none" THEN [obj |-> obj, res |-> ErrGeneric(r.err, <<>>)]
  ELSE [obj |-> r.obj, res |-> Pending]

next(obj, line) ==
  IF ~Has(line, ":") THEN [obj |-> obj, res |-> ErrValueExpected]
  ELSE NextOf(obj, next_internal(obj, split_line(line).key, split_line(line).value))

(***************************************************************************)
(* The server and the socket.  sock is the client's socket (SocketClient): *)
(*   rd      bytes that have arrived and are not yet consumed              *)
(*   eof     what a read meets after rd: "timeout" (connection alive, the  *)
(*           peer silent), "closed" (peer closed), "pipe" (broken pipe)    *)
(*   late    bytes of a stalled answer that arrive with the next answer    *)
(*   sent    the bytes delivered in answer to the latest accepted write    *)
(*   cuts    number of answers cut short so far                            *)
(*   fails   number of failed writes and reconnects so far                 *)
(*   honest  no fault and only well-formed binary answers so far on this   *)
(*           connection, which was quiet when the transaction began        *)
(***************************************************************************)
CmdText == <<"s","t">>
CmdBin == <<"a","r","t">>
\* a command the server answers with at most one value line
CmdOne == <<"o">>

PayloadBytes == <<"w","\n","y","z","u">>
Payload == [i \in 1..PayloadLen |-> PayloadBytes[((i - 1) % Len(PayloadBytes)) + 1]]

\* the answers of the tests: "OK\n", "ACK [55@2] {some_cmd} error message boi\n",
\* "val_b: a\nval_a: 5\nOK\n", "fail: lol\nOK\n", "idc\nOK\n" and
\* "idc: value\nOK\n"; RespA is "val_a: 5\nOK\n"
RespOk == <<"O","K","\n">>
RespAck ==
  <<"A","C","K"," ","[","5","5","@","2","]"," ","{","s","o","m","e","_","c","m","d","}"," ",
    "e","r","r","o","r"," ","m","e","s","s","a","g","e"," ","b","o","i","\n">>
RespBA == <<"v","a","l","_","b",":"," ","a","\n","v","a","l","_","a",":"," ","5","\n","O","K","\n">>
RespA == <<"v","a","l","_","a",":"," ","5","\n","O","K","\n">>
RespFail == <<"f","a","i","l",":"," ","l","o","l","\n","O","K","\n">>
RespIdc == <<"i","d","c","\n","O","K","\n">>
RespBadKey == <<"i","d","c",":"," ","v","a","l","u","e","\n","O","K","\n">>
\* "ACK [5@0] {o} m\n"
RespAckOne == <<"A","C","K"," ","[","5","@","0","]"," ","{","o","}"," ","m","\n">>

\* the answer to a binary command at offset off with a slice of n bytes
SliceResponse(off, n, withType) ==
  sSize \o <<":"," ">> \o Decimal(PayloadLen) \o <<NL>>
  \o (IF withType THEN <<"T","y","p","e",":"," ","t",NL>> ELSE <<>>)
  \o sBinary \o <<":"," ">> \o Decimal(n) \o <<NL>>
  \o SubSeq(Payload, off + 1, off + n) \o <<NL>> \o RespOk

\* the written line, parsed by the server: off is -1 when no offset is given
ParseCommand(bytes) ==
  IF ~Has(bytes, " ") THEN [base |-> StripNewline(bytes), off |-> -1]
  ELSE [base |-> Before(bytes, " "),
        off |-> ParseUnsigned(StripNewline(After(bytes, " ")))]

\* the server serves at most MaxChunk bytes in a slice, or the whole rest
SliceSizes(off) ==
  IF off >= PayloadLen THEN {0}
  ELSE {Min(c, PayloadLen - off) : c \in 1..MaxChunk} \cup {PayloadLen - off}

\* the complete answers the server may give to a written line
\* the complete answers to the binary command at offset off, -1 when the
\* client gave none
BinResponses(off) ==
  {[kind |-> "slice", bytes |-> SliceResponse(IF off < 0 THEN 0 ELSE off, n, ty)] :
      n \in SliceSizes(IF off < 0 THEN 0 ELSE off), ty \in BOOLEAN}
  \cup {[kind |-> "ok", bytes |-> RespOk],
        [kind |-> IF off < 0 THEN "usage" ELSE "ack", bytes |-> RespAck],
        [kind |-> "badkey", bytes |-> RespBadKey]}

TextResponses ==
  {[kind |-> "text", bytes |-> r] :
      r \in {RespOk, RespAck, RespBA, RespA, RespFail, RespIdc}}

OneResponses ==
  {[kind |-> "text", bytes |-> r] : r \in {RespOk, RespA, RespAckOne}}

Responses(bytes) ==
  IF ParseCommand(bytes).base = CmdBin
  THEN BinResponses(ParseCommand(bytes).off)
  ELSE IF ParseCommand(bytes).base = CmdOne
  THEN OneResponses
  ELSE TextResponses

Alive(s) == s.eof = "timeout"

\* the first cut bytes of an answer arrive, then the stream meets ending
Deliver(s, resp, cut, ending) ==
  [rd |-> s.rd \o s.late \o Take(resp.bytes, cut),
   eof |-> ending,
   late |-> IF ending = "timeout" THEN Drop(resp.bytes, cut) ELSE <<>>,
   sent |-> Take(resp.bytes, cut),
   cuts |-> IF cut = Len(resp.bytes) THEN s.cuts ELSE s.cuts + 1,
   fails |-> s.fails,
   honest |-> s.honest /\ cut = Len(resp.bytes) /\ resp.kind \in {"slice", "usage"}]

Fault(s) == [s EXCEPT !.fails = s.fails + 1, !.honest = FALSE]

\* SocketClient::write: the outcomes the transport can produce
write(s, bytes) ==
  (IF Alive(s)
   THEN {[r |-> "ok", s |-> Deliver(s, resp, Len(resp.bytes), "timeout")] :
            resp \in Responses(bytes)}
        \cup (IF s.cuts < MaxCuts
              THEN UNION {{[r |-> "ok", s |-> Deliver(s, resp, cut, ending)] :
                              cut \in 0..(Len(resp.bytes) - 1),
                              ending \in {"closed", "pipe", "timeout"}} :
                            resp \in Responses(bytes)}
              ELSE {})
        \cup (IF s.fails < MaxFails
              THEN {[r |-> "BrokenPipe", s |-> Fault(s)],
                    [r |-> "Other", s |-> Fault(s)]}
              ELSE {})
   ELSE {[r |-> "ok", s |-> [s EXCEPT !.honest = FALSE, !.sent = <<>>]],
         [r |-> "BrokenPipe", s |-> [s EXCEPT !.honest = FALSE]]})

\* SocketClient::reconnect: a fresh connection, or a failure
reconnect(s) ==
  {[r |-> "ok", s |-> [s EXCEPT !.rd = <<>>, !.eof = "timeout", !.late = <<>>,
                                !.honest = FALSE]]}
  \cup (IF s.fails < MaxFails THEN {[r |-> "fail", s |-> Fault(s)]} ELSE {})

Wr(bytes, r) == [e |-> "write", bytes |-> bytes, r |-> r]
Rc(r) == [e |-> "reconnect", bytes |-> <<>>, r |-> r]
Closed == [e |-> "closed", bytes |-> <<>>, r |-> "ClientClosed"]

ErrReconnect == ErrIo("ConnectionRefused")

\* variant: every failed write is taken for a broken pipe
IsBrokenPipeAny(r) == r # "ok"

\* e.kind() == std::io::ErrorKind::BrokenPipe
IsBrokenPipe(r) == r = "BrokenPipe"

(***************************************************************************)
(* ProtoClient::execute.  An outcome is the I/O performed (io), the        *)
(* result (res) and the socket afterwards (s).                             *)
(***************************************************************************)
\* execute once format!("{command}\n") is at hand
ExecuteBytes(s, bytes) ==
  UNION {
    IF w1.r = "ok"
    THEN {[io |-> <<Wr(bytes, "ok")>>, res |-> OkUnit, s |-> w1.s]}
    ELSE IF IsBrokenPipe(w1.r)
    THEN UNION {
           IF rc.r # "ok"
           THEN {[io |-> <<Wr(bytes, w1.r), Rc(rc.r)>>, res |-> ErrReconnect, s |-> rc.s]}
           ELSE {[io |-> <<Wr(bytes, w1.r), Rc(rc.r), Wr(bytes, w2.r)>>,
                  res |-> IF w2.r = "ok" THEN OkUnit ELSE ErrIo(w2.r),
                  s |-> w2.s] : w2 \in write(rc.s, bytes)}
           : rc \in reconnect(w1.s)}
    ELSE {[io |-> <<Wr(bytes, w1.r)>>, res |-> ErrIo(w1.r), s |-> w1.s]}
    : w1 \in write(s, bytes)}

execute(s, command) == ExecuteBytes(s, command \o <<NL>>)

\* variant: a failed reconnect is passed over
ReconnectFailedNever(rc) == FALSE

\* the ? on self.client.reconnect() in the ClientClosed arm
ReconnectFailed(rc) == rc.r # "ok"

\* variant: the connection-closed error is handed back without a replay
ReconnectAndExecuteSurfacing(s, command) ==
  {[io |-> <<>>, res |-> ErrClientClosed, s |-> s]}

\* self.client.reconnect()?; self.execute(command)?;
ReconnectAndExecute(s, command) ==
  UNION {
    IF ReconnectFailed(rc)
    THEN {[io |-> <<Closed, Rc(rc.r)>>, res |-> ErrReconnect, s |-> rc.s]}
    ELSE {[io |-> <<Closed, Rc(rc.r)>> \o x.io, res |-> x.res, s |-> x.s] :
             x \in execute(rc.s, command)}
    : rc \in reconnect(s)}

(***************************************************************************)
(* ProtoClient::_read_bin: one round of the binary protocol.               *)
(***************************************************************************)
MimeNone == <<"None">>
\* variant: the key is stored in place of the value
MimeSomeKey(v) == <<"Some", <<"t","y","p","e">>>>

\* Some(value)
MimeSome(v) == <<"Some", v>>
DefaultBinaryMpdResponse == [bytes_read |-> 0, size_total |-> 0, mime_type |-> MimeNone]
OkSome(h) == [t |-> "OkSome", hdr |-> h]

\* the loop over the preamble lines; res is Pending after the binary key
RECURSIVE ReadBinPreamble(_, _, _)

\* the match on the key of a preamble line: l is the line read, kv its
\* split and key the lowercased key
PreambleField(l, kv, key, eof, hdr) ==
  IF key = sSize
  THEN IF ParseUnsigned(kv.value) = -1
       THEN [res |-> ErrParse(kv.value), rest |-> l.rest, hdr |-> hdr]
       ELSE ReadBinPreamble(l.rest, eof,
              [hdr EXCEPT !.size_total = ParseUnsigned(kv.value)])
  ELSE IF key = sType
  THEN ReadBinPreamble(l.rest, eof, [hdr EXCEPT !.mime_type = MimeSome(kv.value)])
  ELSE IF key = sBinary
  THEN IF ParseUnsigned(kv.value) = -1
       THEN [res |-> ErrParse(kv.value), rest |-> l.rest, hdr |-> hdr]
       ELSE [res |-> Pending, rest |-> l.rest,
             hdr |-> [hdr EXCEPT !.bytes_read = ParseUnsigned(kv.value)]]
  ELSE [res |-> ErrGeneric("Unexpected key when parsing binary response", key),
        rest |-> l.rest, hdr |-> hdr]

\* the match on the line read in the preamble loop
PreambleLine(l, eof, hdr) ==
  IF l.res.t = "Err" THEN [res |-> l.res, rest |-> l.rest, hdr |-> hdr]
  ELSE IF l.res = MpdLineOk THEN [res |-> OkNone, rest |-> l.rest, hdr |-> hdr]
  ELSE IF ~Has(l.res.val, ":")
       THEN [res |-> ErrValueExpected, rest |-> l.rest, hdr |-> hdr]
  ELSE PreambleField(l, split_line(l.res.val),
                     ToLowercase(split_line(l.res.val).key), eof, hdr)

ReadBinPreamble(rd, eof, hdr) == PreambleLine(read_line(rd, eof), eof, hdr)

\* variant: the slice replaces what the buffer held
ReadToEndReplacing(binary_buf, bytes) == bytes

\* handle.read_to_end(binary_buf): the bytes read are appended
ReadToEnd(binary_buf, bytes) == binary_buf \o bytes

\* the end of a round: l is the line read after the payload and its newline
ReadBinEnd(l, hdr, buf2) ==
  [res |-> IF l.res = MpdLineOk THEN OkSome(hdr)
           ELSE IF l.res.t = "LineValue"
                THEN ErrGeneric("Expected 'OK' but got", l.res.val)
           ELSE l.res,
   rest |-> l.rest, buf |-> buf2]

\* variant: the line after the payload is left in the reader
SkipLineNot(rd, eof) == rd

\* let _ = read.read_line(&mut String::new()): a line is read and dropped
SkipLine(rd, eof) == BufReadLine(rd, eof).rest

\* the payload of a round: got of the declared bytes are at hand, r1 is
\* what follows them
ReadBinPayload(p, got, r1, eof, binary_buf) ==
  IF got < p.hdr.bytes_read /\ eof # "closed"
  THEN [res |-> ErrIo(eof), rest |-> r1, buf |-> ReadToEnd(binary_buf, Take(p.rest, got))]
  ELSE ReadBinEnd(read_line(SkipLine(r1, eof), eof), p.hdr,
                  ReadToEnd(binary_buf, Take(p.rest, got)))

\* a round after its preamble p
ReadBinRoundOf(p, eof, binary_buf) ==
  IF p.res # Pending THEN [res |-> p.res, rest |-> p.rest, buf |-> binary_buf]
  ELSE ReadBinPayload(p, Min(p.hdr.bytes_read, Len(p.rest)),
                      Drop(p.rest, Min(p.hdr.bytes_read, Len(p.rest))), eof, binary_buf)

_read_bin(rd, eof, binary_buf) ==
  ReadBinRoundOf(ReadBinPreamble(rd, eof, DefaultBinaryMpdResponse), eof, binary_buf)

\* variant: the offset is always the original one
BinCommandFromStart(cmd, b) == cmd \o <<" ">> \o Decimal(0)

\* format!("{} {}", self.command, buf.len())
BinCommand(cmd, b) == cmd \o <<" ">> \o Decimal(Len(b))

\* variant: the loop ends only on an empty slice
BinFinishedWhenEmpty(b, response) == response.bytes_read = 0

\* buf.len() >= response.size_total as usize || response.bytes_read == 0
BinFinished(b, response) == Len(b) >= response.size_total \/ response.bytes_read = 0

\* variant: the object of the interrupted read is kept
FreshObjectKeeping(old) == old

\* V::default() at the start of a read
FreshObject(old) == DefaultObject

(***************************************************************************)
(* The transaction.                                                        *)
(*   pc        position of the caller: "idle", inside one of the terminal  *)
(*             reads, or "done" once the operation has returned            *)
(*   op        the terminal read the caller selected                       *)
(*   command   self.command                                                *)
(*   acc, found_any   result and found_any of read_response and            *)
(*             read_opt_response; buf is the buffer of read_bin            *)
(*   result    what the operation returned                                 *)
(*   io        the writes and reconnects of the latest step                *)
(*   closes    the recoveries from connection-closed so far; lost tells    *)
(*             whether one of them abandoned decoded values                *)
(*   rounds    the turns of the loop of read_bin so far                    *)
(***************************************************************************)
VARIABLES pc, op, command, sock, acc, found_any, buf, result, io, closes, lost,
          rounds, task, render_loop, lrc, idle_task, albums

vars == <<pc, op, command, sock, acc, found_any, buf, result, io, closes, lost,
          rounds, task, render_loop, lrc, idle_task, albums>>

\* the state of the rest of the program, which the protocol client leaves
\* alone: the main task, the status update loop, the lyrics parser, the
\* idle task and the albums screen
others == <<task, render_loop, lrc, idle_task, albums>>

client == <<pc, op, command, sock, acc, found_any, buf, result, io, closes, lost, rounds>>

\* none of them has started
RestIdle ==
  /\ task = [pc |-> "none"]
  /\ render_loop = [pc |-> "none"]
  /\ lrc = [pc |-> "none"]
  /\ idle_task = [pc |-> "none"]
  /\ albums = [pc |-> "none"]

Ops == {"read_ok", "read_response", "read_opt_response", "read_bin"}

\* ProtoClient and its socket before a command is sent
ClientIdle ==
  /\ pc = "idle"
  /\ op = "none"
  /\ command = <<>>
  /\ sock = [rd |-> <<>>, eof |-> "timeout", late |-> <<>>, sent |-> <<>>,
             cuts |-> 0, fails |-> 0, honest |-> TRUE]
  /\ acc = DefaultObject
  /\ found_any = FALSE
  /\ buf = <<>>
  /\ result = Pending
  /\ io = <<>>
  /\ closes = 0
  /\ lost = FALSE
  /\ rounds = 0

Init == ClientIdle /\ RestIdle

\* variant: the bytes read stay in the reader
ConsumeNothing(rest) == sock

\* the reader after the bytes before rest were read
Consume(rest) == [sock EXCEPT !.rd = rest]

\* the operation returns r
Return(r, s, ev) ==
  /\ pc' = "done"
  /\ result' = r
  /\ sock' = s
  /\ io' = ev
  /\ UNCHANGED <<op, command>>

\* the operation goes on at position p
Goto(p, s, ev) ==
  /\ pc' = p
  /\ sock' = s
  /\ io' = ev
  /\ UNCHANGED <<op, command, result>>

\* the ClientClosed arm of the three line-oriented reads: reconnect,
\* execute the command again and start the same read afresh
Replay(rest) ==
  \E x \in ReconnectAndExecute(Consume(rest), command) :
    /\ closes' = closes + 1
    /\ lost' = (lost \/ acc # DefaultObject)
    /\ UNCHANGED rounds
    /\ acc' = FreshObject(acc)
    /\ found_any' = FALSE
    /\ UNCHANGED buf
    /\ IF x.res = OkUnit THEN Goto(op, x.s, x.io) ELSE Return(x.res, x.s, x.io)

\* variant: a failure of the decoder is passed over
IsDecodedAlways(n) == TRUE

\* result.next(val)?: the decoder took the line
IsDecoded(n) == n.res = Pending

\* variant: the object is returned whether or not a value line was seen
OptResultAlways(found, obj) == OkObj(obj)

\* if found_any { Ok(Some(result)) } else { Ok(None) }
OptResult(found, obj) == IF found THEN OkObj(obj) ELSE OkNone

\* variant: a terminator in the first round is not told apart
IsNoBinaryNever(r) == FALSE

\* the arm Ok(None) => return Ok(None) of the first round of read_bin
IsNoBinary(r) == r.res = OkNone

\* variant: the bytes gathered so far are returned
NoneInLoopReturnsBuffer(b) == OkBuf(b)

\* the else branch of the loop of read_bin: a round without binary data
NoneInLoop(b) == ErrValueExpected

\* the command the caller sends before each kind of read
CommandFor(o) == IF o = "read_bin" THEN CmdBin ELSE CmdText

\* ProtoClient::new with the command input, before the terminal read o
NewWith(o, input) ==
  \E x \in execute(sock, input) :
    /\ op' = o
    /\ command' = input
    /\ closes' = 0
    /\ lost' = FALSE
    /\ rounds' = 0
    /\ acc' = FreshObject(acc)
    /\ found_any' = FALSE
    /\ buf' = <<>>
    /\ sock' = x.s
    /\ io' = x.io
    /\ IF x.res = OkUnit
       THEN pc' = o /\ result' = Pending
       ELSE pc' = "done" /\ result' = x.res

\* ProtoClient::new followed by the choice of the terminal read
New ==
  /\ pc = "idle"
  /\ \E o \in Ops : NewWith(o, CommandFor(o))
  /\ UNCHANGED others

ReadOk ==
  /\ pc = "read_ok"
  /\ \E l \in {read_line(sock.rd, sock.eof)} :
        IF l.res = MpdLineOk
        THEN Return(OkUnit, Consume(l.rest), <<>>) /\ UNCHANGED <<acc, found_any, buf, closes, lost, rounds>>
        ELSE IF l.res.t = "LineValue"
        THEN /\ Return(ErrGeneric("Expected 'OK' but got", l.res.val), Consume(l.rest), <<>>)
             /\ UNCHANGED <<acc, found_any, buf, closes, lost, rounds>>
        ELSE IF IsClosedErr(l.res)
        THEN Replay(l.rest)
        ELSE Return(l.res, Consume(l.rest), <<>>) /\ UNCHANGED <<acc, found_any, buf, closes, lost, rounds>>
  /\ UNCHANGED others

\* one turn of the loop of read_response
ReadResponse ==
  /\ pc = "read_response"
  /\ \E l \in {read_line(sock.rd, sock.eof)} :
        IF l.res = MpdLineOk
        THEN Return(OkObj(acc), Consume(l.rest), <<>>) /\ UNCHANGED <<acc, found_any, buf, closes, lost, rounds>>
        ELSE IF l.res.t = "LineValue"
        THEN \E n \in {next(acc, l.res.val)} :
             IF IsDecoded(n)
             THEN /\ Goto(op, Consume(l.rest), <<>>)
                  /\ acc' = n.obj
                  /\ UNCHANGED <<found_any, buf, closes, lost, rounds>>
             ELSE Return(n.res, Consume(l.rest), <<>>) /\ UNCHANGED <<acc, found_any, buf, closes, lost, rounds>>
        ELSE IF IsClosedErr(l.res)
        THEN Replay(l.rest)
        ELSE Return(l.res, Consume(l.rest), <<>>) /\ UNCHANGED <<acc, found_any, buf, closes, lost, rounds>>
  /\ UNCHANGED others

\* one turn of the loop of read_opt_response
ReadOptResponse ==
  /\ pc = "read_opt_response"
  /\ \E l \in {read_line(sock.rd, sock.eof)} :
        IF l.res = MpdLineOk
        THEN /\ Return(OptResult(found_any, acc), Consume(l.rest), <<>>)
             /\ UNCHANGED <<acc, found_any, buf, closes, lost, rounds>>
        ELSE IF l.res.t = "LineValue"
        THEN \E n \in {next(acc, l.res.val)} :
             IF IsDecoded(n)
             THEN /\ Goto(op, Consume(l.rest), <<>>)
                  /\ acc' = n.obj
                  /\ found_any' = TRUE
                  /\ UNCHANGED <<buf, closes, lost, rounds>>
             ELSE /\ Return(n.res, Consume(l.rest), <<>>)
                  /\ found_any' = TRUE
                  /\ UNCHANGED <<acc, buf, closes, lost, rounds>>
        ELSE IF IsClosedErr(l.res)
        THEN Replay(l.rest)
        ELSE Return(l.res, Consume(l.rest), <<>>) /\ UNCHANGED <<acc, found_any, buf, closes, lost, rounds>>
  /\ UNCHANGED others

\* read_bin up to the loop: the first round and its match
ReadBinFirst ==
  /\ pc = "read_bin"
  /\ \E r \in {_read_bin(sock.rd, sock.eof, buf)} :
        IF IsNoBinary(r)
        THEN Return(OkNone, Consume(r.rest), <<>>) /\ UNCHANGED <<acc, found_any, buf, closes, lost, rounds>>
        ELSE IF IsClosedErr(r.res)
        THEN \E x \in ReconnectAndExecute(Consume(r.rest), BinCommand(command, r.buf)) :
               /\ closes' = closes + 1
               /\ buf' = r.buf
               /\ UNCHANGED <<acc, found_any, lost, rounds>>
               /\ IF x.res = OkUnit
                  THEN Goto("bin_retry", x.s, x.io)
                  ELSE Return(x.res, x.s, x.io)
        ELSE /\ Goto("bin_exec", Consume(r.rest), <<>>)
             /\ buf' = r.buf
             /\ UNCHANGED <<acc, found_any, closes, lost, rounds>>
  /\ UNCHANGED others

\* the second _read_bin of the ClientClosed arm; its value is dropped
ReadBinRetry ==
  /\ pc = "bin_retry"
  /\ \E r \in {_read_bin(sock.rd, sock.eof, buf)} :
        /\ Goto("bin_exec", Consume(r.rest), <<>>)
        /\ buf' = r.buf
        /\ UNCHANGED <<acc, found_any, closes, lost, rounds>>
  /\ UNCHANGED others

\* the execute at the top of the loop of read_bin
ReadBinExecute ==
  /\ pc = "bin_exec"
  /\ \E x \in execute(sock, BinCommand(command, buf)) :
       /\ IF x.res = OkUnit
          THEN Goto("bin_read", x.s, x.io)
          ELSE Return(x.res, x.s, x.io)
       /\ UNCHANGED <<acc, found_any, buf, closes, lost, rounds>>
  /\ UNCHANGED others

\* the _read_bin of the loop of read_bin and the test that ends the loop
ReadBinRound ==
  /\ pc = "bin_read"
  /\ rounds <= PayloadLen + 1
  /\ \E r \in {_read_bin(sock.rd, sock.eof, buf)} :
        /\ IF r.res.t = "Err"
           THEN Return(r.res, Consume(r.rest), <<>>)
           ELSE IF r.res = OkNone
           THEN Return(NoneInLoop(r.buf), Consume(r.rest), <<>>)
           ELSE IF BinFinished(r.buf, r.res.hdr)
           THEN Return(OkBuf(r.buf), Consume(r.rest), <<>>)
           ELSE Goto("bin_exec", Consume(r.rest), <<>>)
        /\ buf' = r.buf
        /\ rounds' = rounds + 1
        /\ UNCHANGED <<acc, found_any, closes, lost>>
  /\ UNCHANGED others

Next ==
  \/ New
  \/ ReadOk
  \/ ReadResponse
  \/ ReadOptResponse
  \/ ReadBinFirst
  \/ ReadBinRetry
  \/ ReadBinExecute
  \/ ReadBinRound

Spec == Init /\ [][Next]_vars

(***************************************************************************)
(* Properties.                                                             *)
(***************************************************************************)
LineReads == {"read_ok", "read_response", "read_opt_response"}
BinReads == {"read_bin", "bin_retry", "bin_exec", "bin_read"}

\* the line the next read_line of the client meets
NextLine == read_line(sock.rd, sock.eof)

\* the round the next _read_bin of the client performs
NextRound == _read_bin(sock.rd, sock.eof, buf)

WireCommand == command \o <<NL>>

\* C1: in read_ok, read_response and read_opt_response a line read that
\* reports connection-closed is followed by a reconnect and by writes of the
\* original command line only; when the reconnect and the write succeed the
\* same read starts afresh, and connection-closed is never the result.
C1_ReplayOnClosed ==
  [][ /\ (pc \in LineReads /\ NextLine.res = ErrClientClosed) =>
           /\ Len(io') >= 2
           /\ io'[1] = Closed
           /\ io'[2].e = "reconnect"
           /\ \A i \in 3..Len(io') :
                io'[i].e = "write" => io'[i].bytes = WireCommand
           /\ io'[2].r = "ok" => (Len(io') >= 3 /\ io'[3].e = "write")
           /\ (io'[2].r = "ok" /\ io'[3].r = "ok") =>
                /\ Len(io') = 3
                /\ pc' = pc
                /\ result' = Pending
                /\ acc' = DefaultObject
                /\ found_any' = FALSE
      /\ (op' \in LineReads /\ result' = ErrClientClosed) =>
           (\E i \in 1..Len(io') : io'[i].r \notin {"ok", "ClientClosed"})
    ]_vars

C1_Witness ==
  /\ op \in LineReads
  /\ pc = "done"
  /\ closes >= 1
  /\ result.t \in {"Ok", "OkObj", "OkNone"}

\* the lines of a byte string, without their newlines
RECURSIVE LinesOf(_)
LinesOf(bytes) ==
  IF bytes = <<>> THEN <<>>
  ELSE IF ~Has(bytes, NL) THEN <<bytes>>
  ELSE <<Before(bytes, NL)>> \o LinesOf(After(bytes, NL))

IsTerminator(line) == StartsWith(line, sOK) \/ StartsWith(line, sListOK)

\* the lines of a response that precede its first terminator line
RECURSIVE ValueLines(_)
ValueLines(lines) ==
  IF lines = <<>> \/ IsTerminator(Head(lines)) THEN <<>>
  ELSE <<Head(lines)>> \o ValueLines(Tail(lines))

\* the object decoded from value lines, starting from obj
RECURSIVE Decoded(_, _)
Decoded(lines, obj) ==
  IF lines = <<>> THEN obj
  ELSE Decoded(Tail(lines), next(obj, Head(lines)).obj)

\* C2: when read_response or read_opt_response returns an object after a
\* recovery from connection-closed, the object is the empty default fed with
\* the value lines of the last response only, and read_opt_response returns
\* no object exactly when that last response has no value line.
C2_ReplayDiscardsPartial ==
  (/\ op \in {"read_response", "read_opt_response"}
   /\ pc = "done"
   /\ closes >= 1
   /\ result.t \in {"OkObj", "OkNone"}) =>
     LET last == ValueLines(LinesOf(sock.sent))
     IN /\ result.t = "OkObj" => result.obj = Decoded(last, DefaultObject)
        /\ op = "read_response" => result.t = "OkObj"
        /\ op = "read_opt_response" => (result = OkNone <=> last = <<>>)

\* a recovery after a value line of the interrupted response was consumed
C2_Witness ==
  /\ op \in {"read_response", "read_opt_response"}
  /\ pc = "done"
  /\ lost
  /\ sock.sent = RespA
  /\ result = OkObj([val_a |-> <<"5">>, val_b |-> <<>>])

\* the failure record of the line RespAck
RespAckFailure ==
  [code |-> "PlayerSync", command_list_index |-> 2,
   command |-> <<"s","o","m","e","_","c","m","d">>,
   message |-> <<"e","r","r","o","r"," ","m","e","s","s","a","g","e"," ","b","o","i">>]

\* C3: in read_ok, read_response and read_opt_response a line that begins
\* with ACK ends the operation at once with the failure of that line; there
\* is no reconnect and no write.
C3_AckReturnedAtOnce ==
  [][ LET r == BufReadLine(sock.rd, sock.eof)
      IN (pc \in LineReads /\ r.err = "none" /\ StartsWith(r.line, sACK)) =>
           /\ pc' = "done"
           /\ io' = <<>>
           /\ result'.t = "Err"
           /\ result'.kind \in {"Mpd", "Parse"}
           /\ r.line = RespAck => result' = ErrMpd(RespAckFailure)
    ]_vars

C3_Witness ==
  /\ op \in LineReads
  /\ pc = "done"
  /\ io = <<>>
  /\ result = ErrMpd(RespAckFailure)

\* C4: when the first round of read_bin ends with an error other than
\* connection-closed, read_bin returns that error and writes nothing more.
C4_FirstRoundErrorReturned ==
  [][ (/\ pc = "read_bin"
       /\ NextRound.res.t = "Err"
       /\ NextRound.res # ErrClientClosed) =>
        /\ pc' = "done"
        /\ result' = NextRound.res
        /\ io' = <<>>
    ]_vars

\* C5: after every round of read_bin that yields a slice, the first one
\* included, read_bin returns the buffer when it holds at least size_total
\* bytes or the slice declared zero bytes, and goes on to one more command
\* only otherwise.
C5_StopAfterEverySlice ==
  [][ (pc \in {"read_bin", "bin_retry", "bin_read"} /\ NextRound.res.t = "OkSome") =>
        IF \/ Len(NextRound.buf) >= NextRound.res.hdr.size_total
           \/ NextRound.res.hdr.bytes_read = 0
        THEN pc' = "done" /\ result' = OkBuf(NextRound.buf)
        ELSE pc' = "bin_exec"
    ]_vars

\* C6: in the first round and in every round of the loop of read_bin a
\* connection-closed is not the result: the client reconnects, writes the
\* base command with the length of the buffer as offset and stays in the
\* assembly.
C6_ClosedRecoveredInEveryRound ==
  [][ (pc \in {"read_bin", "bin_read"} /\ NextRound.res = ErrClientClosed) =>
        /\ result' # ErrClientClosed
        /\ Len(io') >= 2
        /\ io'[1] = Closed
        /\ io'[2].e = "reconnect"
        /\ \A i \in 3..Len(io') :
             io'[i].e = "write" =>
               ParseCommand(io'[i].bytes) = [base |-> command, off |-> Len(buf')]
        /\ (io'[2].r = "ok" /\ Len(io') >= 3 /\ io'[3].r = "ok") => pc' \in BinReads
    ]_vars

\* C7: every line read_bin writes after the initial command is the base
\* command, one space and the decimal length the buffer has at that moment.
C7_OffsetIsBufferLength ==
  [][ (op = "read_bin" /\ pc \in BinReads) =>
        \A i \in 1..Len(io') :
          io'[i].e = "write" =>
            /\ io'[i].bytes = command \o <<" ">> \o Decimal(Len(buf')) \o <<NL>>
            /\ ParseCommand(io'[i].bytes) = [base |-> command, off |-> Len(buf')]
    ]_vars

\* a replay after the first slice was cut short with one byte in the buffer
C7_Witness ==
  /\ pc = "bin_retry"
  /\ Len(buf) = 1
  /\ Len(io) = 3
  /\ io[3] = Wr(CmdBin \o <<" ","1",NL>>, "ok")

\* C8: against a server that answers every offset with the slice at that
\* offset, on a quiet connection and without faults, read_bin returns the
\* whole payload: the slices in order, none twice and none left out.
C8_AssemblyIsPayload ==
  (op = "read_bin" /\ pc = "done" /\ sock.honest) => result = OkBuf(Payload)

\* the payload arrived in two slices or more
C8_Witness ==
  /\ op = "read_bin"
  /\ pc = "done"
  /\ sock.honest
  /\ result = OkBuf(Payload)
  /\ \E off \in 1..(PayloadLen - 1), ty \in BOOLEAN :
       sock.sent = SliceResponse(off, PayloadLen - off, ty)

\* C9 as stated: a broken pipe on the first write is always followed by one
\* reconnect and one retried write, whose outcome is the result.
C9_AlwaysRetries ==
  [][ (pc \in {"idle", "bin_exec"}) =>
        LET w == (IF pc = "bin_exec" THEN BinCommand(command, buf) ELSE command') \o <<NL>>
        IN /\ Len(io') >= 1
           /\ io'[1].e = "write" /\ io'[1].bytes = w
           /\ io'[1].r = "ok" => (Len(io') = 1 /\ pc' # "done" /\ result' = Pending)
           /\ io'[1].r = "BrokenPipe" =>
                /\ Len(io') = 3
                /\ io'[2].e = "reconnect"
                /\ io'[3].e = "write" /\ io'[3].bytes = w
                /\ io'[3].r = "ok" => (pc' # "done" /\ result' = Pending)
                /\ io'[3].r # "ok" => (pc' = "done" /\ result' = ErrIo(io'[3].r))
           /\ io'[1].r \notin {"ok", "BrokenPipe"} =>
                (Len(io') = 1 /\ pc' = "done" /\ result' = ErrIo(io'[1].r))
    ]_vars

\* C9: execute writes the command line; after a broken pipe it reconnects
\* once and, when the reconnect succeeds, writes the line once more and
\* returns the outcome of that write; when the reconnect fails it returns
\* that failure without a second write; any other write error is returned
\* without a reconnect.
C9_ExecuteRetriesOnce ==
  [][ (pc \in {"idle", "bin_exec"}) =>
        LET w == (IF pc = "bin_exec" THEN BinCommand(command, buf) ELSE command') \o <<NL>>
        IN /\ Len(io') >= 1
           /\ io'[1].e = "write" /\ io'[1].bytes = w
           /\ io'[1].r = "ok" => (Len(io') = 1 /\ pc' # "done" /\ result' = Pending)
           /\ io'[1].r = "BrokenPipe" =>
                /\ Len(io') >= 2
                /\ io'[2].e = "reconnect"
                /\ io'[2].r = "ok" =>
                     /\ Len(io') = 3
                     /\ io'[3].e = "write" /\ io'[3].bytes = w
                     /\ io'[3].r = "ok" => (pc' # "done" /\ result' = Pending)
                     /\ io'[3].r # "ok" => (pc' = "done" /\ result' = ErrIo(io'[3].r))
                /\ io'[2].r # "ok" =>
                     (Len(io') = 2 /\ pc' = "done" /\ result' = ErrReconnect)
           /\ io'[1].r \notin {"ok", "BrokenPipe"} =>
                (Len(io') = 1 /\ pc' = "done" /\ result' = ErrIo(io'[1].r))
    ]_vars

\* an execute whose first write met a broken pipe and whose retry succeeded
C9_Witness ==
  /\ pc \in Ops
  /\ Len(io) = 3
  /\ io[1] = Wr(WireCommand, "BrokenPipe")
  /\ io[2] = Rc("ok")
  /\ io[3] = Wr(WireCommand, "ok")

\* C10: a line read that fails with an I/O error other than a broken pipe
\* is not classified as connection-closed and is followed by no reconnect
\* and no write.
C10_TimeoutIsNotClosed ==
  [][ (pc \in LineReads /\ BufReadLine(sock.rd, sock.eof).err = "timeout") =>
        /\ NextLine.res # ErrClientClosed
        /\ io' = <<>>
    ]_vars

(***************************************************************************)
(* The line classifier on its own: read_line applied, line after line, to  *)
(* a byte stream drawn from LineInputs that ends as eof tells.             *)
(***************************************************************************)
LineAlphabet == {"O", "K", " ", ":", "x", NL}

Tails == UNION {[1..k -> LineAlphabet] : k \in 0..MaxTail}

LinePrefixes == {<<>>, sOK, sListOK, <<"A","C","K">>, <<"l","i","s","t">>, <<"v">>}

some_cmd == <<"s","o","m","e","_","c","m","d">>
error_message_boi ==
  <<"e","r","r","o","r"," ","m","e","s","s","a","g","e"," ","b","o","i">>

\* the numbers of an ACK line with the ErrorCode each stands for; 7 has none
AckCodes ==
  {[n |-> 2, code |-> "Argument"], [n |-> 5, code |-> "UnknownCmd"],
   [n |-> 55, code |-> "PlayerSync"], [n |-> 7, code |-> "Unknown"]}

AckIndexes == {0, 2, 10}
AckCommands == {<<"c">>, some_cmd}
AckMessages == {<<"m">>, error_message_boi, <<"a"," ","}","]">>}

\* the line "ACK [n@i] {c} m"
AckLine(n, i, c, m) ==
  <<"A","C","K"," ","[">> \o Decimal(n) \o <<"@">> \o Decimal(i)
  \o <<"]"," ","{">> \o c \o <<"}"," ">> \o m

LineInputs ==
  {p \o t : p \in LinePrefixes, t \in Tails}
  \cup {AckLine(k.n, i, c, m) \o e :
          k \in AckCodes, i \in AckIndexes, c \in AckCommands, m \in AckMessages,
          e \in {<<>>, <<NL>>}}

LineInit ==
  /\ pc = "line"
  /\ op = "read_line"
  /\ command = <<>>
  /\ \E bytes \in LineInputs, e \in {"closed", "pipe", "timeout"} :
       sock = [rd |-> bytes, eof |-> e, late |-> <<>>, sent |-> bytes,
               cuts |-> 0, fails |-> 0, honest |-> TRUE]
  /\ acc = DefaultObject
  /\ found_any = FALSE
  /\ buf = <<>>
  /\ result = Pending
  /\ io = <<>>
  /\ closes = 0
  /\ lost = FALSE
  /\ rounds = 0
  /\ RestIdle

\* what the buffered reader gave to a call of read_line
Ln(r) == [e |-> "line", bytes |-> r.line, r |-> r.err]

\* one call of ProtoClient::read_line; the caller stops at connection-closed
ReadLine ==
  /\ pc = "line"
  /\ \E l \in {read_line(sock.rd, sock.eof)} :
       /\ result' = l.res
       /\ sock' = Consume(l.rest)
       /\ pc' = IF IsClosedErr(l.res) THEN "line_end" ELSE "line"
  /\ io' = <<Ln(BufReadLine(sock.rd, sock.eof))>>
  /\ UNCHANGED <<op, command, acc, found_any, buf, closes, lost, rounds>>
  /\ UNCHANGED others

LineNext == ReadLine

LineSpec == LineInit /\ [][LineNext]_vars

\* C11: the line classifier returns connection-closed both for a read of
\* zero bytes and for a read that fails with a broken pipe.
C11_ZeroBytesAndBrokenPipeAreClosed ==
  [][ (/\ pc = "line"
       /\ \/ io'[1].r = "pipe"
          \/ io'[1].r = "none" /\ io'[1].bytes = <<>>) =>
        result' = ErrClientClosed
    ]_vars

\* a read that met a broken pipe after some bytes of a line
C11_Witness ==
  /\ pc = "line_end"
  /\ Len(io) = 1
  /\ io[1].r = "pipe"
  /\ io[1].bytes # <<>>
  /\ result = ErrClientClosed

\* the line begins with the bytes p
Begins(line, p) == Len(line) >= Len(p) /\ \A i \in 1..Len(p) : line[i] = p[i]

\* C12: every non-empty line that begins with OK or list_OK is a terminator
\* for the classifier, whatever follows the prefix on the line.
C12_OkPrefixIsTerminator ==
  [][ (/\ pc = "line"
       /\ io'[1].r = "none"
       /\ \/ Begins(io'[1].bytes, <<"O","K">>)
          \/ Begins(io'[1].bytes, <<"l","i","s","t","_","O","K">>)) =>
        result' = MpdLineOk
    ]_vars

\* a terminator with content after the prefix
C12_Witness ==
  /\ pc = "line"
  /\ Len(io) = 1
  /\ io[1] = Ln([line |-> <<"O","K"," ","x">>, err |-> "none"])
  /\ result = MpdLineOk

\* C13: a line that is neither a terminator nor a failure line is returned
\* as a value with only its trailing newline removed; a last line without a
\* newline keeps all of its characters.
C13_ValueKeepsItsContent ==
  [][ (/\ pc = "line"
       /\ io'[1].r = "none"
       /\ io'[1].bytes # <<>>
       /\ ~Begins(io'[1].bytes, <<"O","K">>)
       /\ ~Begins(io'[1].bytes, <<"l","i","s","t","_","O","K">>)
       /\ ~Begins(io'[1].bytes, <<"A","C","K">>)) =>
        result' = [t |-> "LineValue",
                   val |-> IF io'[1].bytes[Len(io'[1].bytes)] = NL
                           THEN SubSeq(io'[1].bytes, 1, Len(io'[1].bytes) - 1)
                           ELSE io'[1].bytes]
    ]_vars

\* C14: a line that begins with ACK is a protocol failure, never a value or
\* a terminator, and the line "ACK [n@i] {c} m" gives the record of the code
\* of n, the index i, the command c and the message m.
C14_AckIsFailure ==
  [][ (pc = "line" /\ io'[1].r = "none" /\ Begins(io'[1].bytes, <<"A","C","K">>)) =>
        /\ result'.t = "Err"
        /\ result'.kind \in {"Mpd", "Parse"}
        /\ \A k \in AckCodes, i \in AckIndexes, c \in AckCommands, m \in AckMessages :
             (/\ k.code # "Unknown"
              /\ io'[1].bytes \in {AckLine(k.n, i, c, m), AckLine(k.n, i, c, m) \o <<NL>>}) =>
               result' = [t |-> "Err", kind |-> "Mpd",
                          failure |-> [code |-> k.code, command_list_index |-> i,
                                       command |-> c, message |-> m]]
    ]_vars

\* the line of the test returns_mpd_err
C14_Witness ==
  /\ pc = "line"
  /\ Len(io) = 1
  /\ io[1].bytes = AckLine(55, 2, some_cmd, error_message_boi)
  /\ result = ErrMpd([code |-> "PlayerSync", command_list_index |-> 2,
                      command |-> some_cmd, message |-> error_message_boi])

(***************************************************************************)
(* The line-oriented reads on whole responses: the command was written and *)
(* the server answered with up to MaxLines lines and a terminator.         *)
(***************************************************************************)
LineValA5 == <<"v","a","l","_","a",":"," ","5",NL>>
LineValB == <<"v","a","l","_","b",":"," ","a",NL>>
LineValA6 == <<"v","a","l","_","a",":"," ","6",NL>>
LineFail == <<"f","a","i","l",":"," ","l","o","l",NL>>
LineIdc == <<"i","d","c",NL>>

StreamLines == {LineValA5, LineValB, LineValA6, LineFail, LineIdc}

RECURSIVE Concat(_)
Concat(ls) == IF ls = <<>> THEN <<>> ELSE Head(ls) \o Concat(Tail(ls))

Streams ==
  {Concat(ls) \o RespOk : ls \in UNION {[1..k -> StreamLines] : k \in 0..MaxLines}}

StreamInit ==
  /\ op \in LineReads
  /\ pc = op
  /\ command = CmdText
  /\ \E st \in Streams :
       sock = [rd |-> st, eof |-> "timeout", late |-> <<>>, sent |-> st,
               cuts |-> MaxCuts, fails |-> MaxFails, honest |-> TRUE]
  /\ acc = DefaultObject
  /\ found_any = FALSE
  /\ buf = <<>>
  /\ result = Pending
  /\ io = <<Wr(CmdText \o <<NL>>, "ok")>>
  /\ closes = 0
  /\ lost = FALSE
  /\ rounds = 0
  /\ RestIdle

StreamNext ==
  \/ ReadOk
  \/ ReadResponse
  \/ ReadOptResponse

StreamSpec == StreamInit /\ [][StreamNext]_vars

\* the value lines of the response the server sent
SentValueLines == ValueLines(LinesOf(sock.sent))

\* the decoder takes every line of ls
AllDecoded(ls) == \A i \in 1..Len(ls) : next(DefaultObject, ls[i]).res = Pending

\* read_response on the bytes rd of a connection that stays open, as a
\* function: the loop of read_line and next up to the first return
RECURSIVE ResponseOf(_, _)
ResponseOf(rd, obj) ==
  LET l == read_line(rd, "timeout")
  IN IF l.res = MpdLineOk THEN OkObj(obj)
     ELSE IF l.res.t = "LineValue"
     THEN IF next(obj, l.res.val).res = Pending
          THEN ResponseOf(l.rest, next(obj, l.res.val).obj)
          ELSE next(obj, l.res.val).res
     ELSE l.res

\* C15: read_opt_response returns no object exactly when the terminator
\* comes with no value line before it, returns the object whenever the value
\* lines before the terminator were all decoded, and that object is the one
\* read_response returns for the same stream.
C15_OptionalObject ==
  (op = "read_opt_response" /\ pc = "done") =>
    /\ result = OkNone <=> SentValueLines = <<>>
    /\ (SentValueLines # <<>> /\ AllDecoded(SentValueLines)) => result.t = "OkObj"
    /\ result.t = "OkObj" => result = ResponseOf(sock.sent, DefaultObject)

C15_Witness ==
  /\ op = "read_opt_response"
  /\ pc = "done"
  /\ sock.sent = LineValB \o LineValA5 \o RespOk
  /\ result = OkObj([val_a |-> <<"5">>, val_b |-> <<"a">>])

\* C16: in read_response and read_opt_response a value line the decoder
\* fails on ends the operation with that failure: no object is returned, the
\* lines after it stay unread and nothing is written or reconnected.
C16_DecodeFailureReturned ==
  [][ (/\ pc \in {"read_response", "read_opt_response"}
       /\ NextLine.res.t = "LineValue"
       /\ next(acc, NextLine.res.val).res # Pending) =>
        /\ pc' = "done"
        /\ result' = next(acc, NextLine.res.val).res
        /\ result'.t = "Err"
        /\ io' = <<>>
        /\ sock'.rd = NextLine.rest
    ]_vars

\* a failure after a line that had been decoded
C16_Witness ==
  /\ op \in {"read_response", "read_opt_response"}
  /\ pc = "done"
  /\ acc = [val_a |-> <<"5">>, val_b |-> <<>>]
  /\ sock.sent = LineValA5 \o LineFail \o RespOk
  /\ sock.rd = RespOk
  /\ result = ErrGeneric("intentional fail", <<>>)

\* the keys of the lines ls differ from one another
DistinctKeys(ls) ==
  \A i, j \in 1..Len(ls) : i # j => split_line(ls[i]).key # split_line(ls[j]).key

\* the permutations of 1..n
Perms(n) == {f \in [1..n -> 1..n] : \A i, j \in 1..n : i # j => f[i] # f[j]}

\* C17: read_response feeds every value line of the response once, in turn,
\* to the decoder and returns the object at the terminator; when the keys of
\* the lines differ from one another the object is the same for every order
\* of the lines.
C17_OrderOfLinesIrrelevant ==
  (op = "read_response" /\ pc = "done") =>
    /\ AllDecoded(SentValueLines) => result.t = "OkObj"
    /\ result.t = "OkObj" =>
         /\ result.obj = Decoded(SentValueLines, DefaultObject)
         /\ sock.rd = <<>>
         /\ DistinctKeys(SentValueLines) =>
              \A f \in Perms(Len(SentValueLines)) :
                Decoded([i \in 1..Len(SentValueLines) |-> SentValueLines[f[i]]],
                        DefaultObject) = result.obj

\* the lines of the test parses_correct_response in the other order
C17_Witness ==
  /\ op = "read_response"
  /\ pc = "done"
  /\ sock.sent = LineValA5 \o LineValB \o RespOk
  /\ result = OkObj([val_a |-> <<"5">>, val_b |-> <<"a">>])

\* C18: read_ok succeeds only on a terminator as the first line; a value
\* line as the first line ends it with the error "Expected 'OK' but got"
\* that carries the line, and nothing is written or reconnected.
C18_ReadOkWantsTerminator ==
  [][ (pc = "read_ok") =>
        LET r == BufReadLine(sock.rd, sock.eof)
        IN /\ (pc' = "done" /\ result' = OkUnit /\ closes' = closes) =>
                (r.err = "none" /\ (Begins(r.line, <<"O","K">>)
                                    \/ Begins(r.line, <<"l","i","s","t","_","O","K">>)))
           /\ (/\ r.err = "none"
               /\ r.line # <<>>
               /\ ~Begins(r.line, <<"O","K">>)
               /\ ~Begins(r.line, <<"l","i","s","t","_","O","K">>)
               /\ ~Begins(r.line, <<"A","C","K">>)) =>
                /\ pc' = "done"
                /\ result' = ErrGeneric("Expected 'OK' but got", StripNewline(r.line))
                /\ io' = <<>>
    ]_vars

\* the response of the test returns_error_when_receiving_value
C18_Witness ==
  /\ op = "read_ok"
  /\ pc = "done"
  /\ sock.sent = LineIdc \o RespOk
  /\ io = <<>>
  /\ result = ErrGeneric("Expected 'OK' but got", <<"i","d","c">>)

\* C19: when an operation returns, with success or with an error that is
\* not a failure of the transport, on a connection without faults, no byte
\* of the response to its command is left unread.
C19_ResponseFullyConsumed ==
  (/\ pc = "done"
   /\ sock.cuts = 0
   /\ sock.fails = 0
   /\ (result.t = "Err" => result.kind \notin {"ClientClosed", "Io"})) =>
    /\ sock.rd = <<>>
    /\ sock.late = <<>>

\* C20: when the answer to the initial binary command begins with a
\* terminator, read_bin returns no binary data, which is not an error, and
\* writes nothing more.
C20_ImmediateTerminatorIsNone ==
  [][ (pc = "read_bin" /\ NextLine.res = MpdLineOk) =>
        /\ pc' = "done"
        /\ result' = OkNone
        /\ io' = <<>>
    ]_vars

C20_Witness ==
  /\ op = "read_bin"
  /\ pc = "done"
  /\ sock.sent = RespOk
  /\ io = <<>>
  /\ result = OkNone

(***************************************************************************)
(* One round of the binary protocol on its own: _read_bin applied to a     *)
(* buffer and to the bytes of a whole answer, described by io[1].          *)
(***************************************************************************)
RoundSizes == {0, 12}

RoundTypes == {<<"None">>, <<"Some", <<"t">>>>, <<"Some", <<"i","/","p">>>>}

RoundPayloads == UNION {[1..n -> {"w", NL, "O"}] : n \in 0..MaxRound}

RoundTrailers == {<<NL>>, <<"x",NL>>}

RoundEnds == {RespOk, LineIdc, RespAck}

\* the bytes of the answer d
RoundBytes(d) ==
  <<"s","i","z","e",":"," ">> \o Decimal(d.size) \o <<NL>>
  \o (IF d.type[1] = "None" THEN <<>>
      ELSE <<"t","y","p","e",":"," ">> \o d.type[2] \o <<NL>>)
  \o (IF d.bad THEN RespBadKey ELSE <<>>)
  \o <<"b","i","n","a","r","y",":"," ">> \o Decimal(Len(d.bytes)) \o <<NL>>
  \o d.bytes \o d.trailer \o d.end

RoundInit ==
  /\ pc = "round"
  /\ op = "_read_bin"
  /\ command = CmdBin
  /\ \E sz \in RoundSizes, ty \in RoundTypes, bad \in BOOLEAN, b \in RoundPayloads,
        tr \in RoundTrailers, en \in RoundEnds :
       /\ io = <<[e |-> "round", bytes |-> b,
                  r |-> [size |-> sz, type |-> ty, bad |-> bad, bytes |-> b,
                         trailer |-> tr, end |-> en]]>>
       /\ sock = [rd |-> RoundBytes(io[1].r), eof |-> "timeout", late |-> <<>>,
                  sent |-> RoundBytes(io[1].r), cuts |-> MaxCuts, fails |-> MaxFails,
                  honest |-> TRUE]
  /\ buf \in {<<>>, <<"p">>}
  /\ acc = DefaultObject
  /\ found_any = FALSE
  /\ result = Pending
  /\ closes = 0
  /\ lost = FALSE
  /\ rounds = 0
  /\ RestIdle

\* one call of ProtoClient::_read_bin
ReadBinOnce ==
  /\ pc = "round"
  /\ \E r \in {_read_bin(sock.rd, sock.eof, buf)} :
       /\ result' = r.res
       /\ buf' = r.buf
       /\ sock' = Consume(r.rest)
  /\ pc' = "round_done"
  /\ UNCHANGED <<op, command, acc, found_any, io, closes, lost, rounds>>
  /\ UNCHANGED others

RoundNext == ReadBinOnce

RoundSpec == RoundInit /\ [][RoundNext]_vars

\* C21: a round over size: S, an optional type: T, binary: N, N raw bytes, a
\* trailer line and a terminator appends those N bytes to the buffer, keeps
\* what the buffer held and returns the header of N, S and T.
C21_RoundAppendsAndReturnsHeader ==
  [][ (/\ pc = "round"
       /\ sock.rd = RoundBytes(io[1].r)
       /\ ~io[1].r.bad
       /\ io[1].r.end = <<"O","K",NL>>) =>
        /\ result' = [t |-> "OkSome",
                      hdr |-> [bytes_read |-> Len(io[1].r.bytes),
                               size_total |-> io[1].r.size,
                               mime_type |-> io[1].r.type]]
        /\ buf' = buf \o io[1].r.bytes
        /\ sock'.rd = <<>>
    ]_vars

\* a round with a type and a payload that holds a newline, on a buffer that
\* held a byte
C21_Witness ==
  /\ pc = "round_done"
  /\ result.t = "OkSome"
  /\ result.hdr = [bytes_read |-> 2, size_total |-> 12, mime_type |-> <<"Some", <<"t">>>>]
  /\ buf = <<"p","w",NL>>

\* C22: a key of the preamble other than size, type and binary makes the
\* round fail with the decode error that names the key, and the buffer gets
\* no byte in that round.
C22_UnknownKeyFails ==
  [][ (pc = "round" /\ sock.rd = RoundBytes(io[1].r) /\ io[1].r.bad) =>
        /\ result' = [t |-> "Err", kind |-> "Generic",
                      what |-> "Unexpected key when parsing binary response",
                      text |-> <<"i","d","c">>]
        /\ buf' = buf
    ]_vars

C22_Witness ==
  /\ pc = "round_done"
  /\ io[1].r.bad
  /\ io[1].r.bytes # <<>>
  /\ buf = <<"p">>
  /\ result = ErrGeneric("Unexpected key when parsing binary response", <<"i","d","c">>)

\* C23: after the binary key a round reads the declared number of bytes,
\* drops one trailer line and wants a terminator: a value line there is an
\* error and a failure line is the protocol failure of that line.
C23_PayloadTrailerTerminator ==
  [][ (pc = "round" /\ sock.rd = RoundBytes(io[1].r) /\ ~io[1].r.bad) =>
        /\ buf' = buf \o io[1].r.bytes
        /\ sock'.rd = <<>>
        /\ io[1].r.end = <<"O","K",NL>> => result'.t = "OkSome"
        /\ io[1].r.end = LineIdc =>
             result' = ErrGeneric("Expected 'OK' but got", <<"i","d","c">>)
        /\ io[1].r.end = RespAck => result' = ErrMpd(RespAckFailure)
    ]_vars

\* a value line after a payload of two bytes and a trailer that is not blank
C23_Witness ==
  /\ pc = "round_done"
  /\ ~io[1].r.bad
  /\ Len(io[1].r.bytes) = 2
  /\ io[1].r.trailer = <<"x",NL>>
  /\ io[1].r.end = LineIdc
  /\ sock.rd = <<>>
  /\ result = ErrGeneric("Expected 'OK' but got", <<"i","d","c">>)

\* C24: in a round of the loop of read_bin a terminator in place of the
\* preamble ends read_bin with the value-expected error; the bytes gathered
\* so far are not returned.
C24_TerminatorInLoopIsError ==
  [][ (pc = "bin_read" /\ NextLine.res = MpdLineOk) =>
        /\ pc' = "done"
        /\ result' = [t |-> "Err", kind |-> "ValueExpected"]
        /\ io' = <<>>
    ]_vars

\* a terminator after a first slice of one byte
C24_Witness ==
  /\ op = "read_bin"
  /\ pc = "done"
  /\ Len(buf) >= 1
  /\ sock.sent = RespOk
  /\ sock.cuts = 0
  /\ result = ErrValueExpected

\* C31: each turn of the loop of read_bin ends the operation or makes the
\* buffer longer, and against the server of this model, which reports
\* PayloadLen as the size in every answer, the loop takes at most
\* max(1, PayloadLen) turns.
C31_LoopGrowsOrEnds ==
  /\ [][ pc = "bin_read" => (pc' = "done" \/ Len(buf') > Len(buf)) ]_vars
  /\ [](rounds <= IF PayloadLen > 1 THEN PayloadLen ELSE 1)

\* a payload gathered one byte a turn, after a first round that failed
C31_Witness ==
  /\ op = "read_bin"
  /\ pc = "done"
  /\ rounds = PayloadLen
  /\ result = OkBuf(Payload)

(***************************************************************************)
(* The three line-oriented reads on a transport whose reconnects and       *)
(* writes all succeed and whose connection is cut at most MaxCloses times. *)
(* The client is one sequential thread, so a read that can take a step     *)
(* takes it: weak fairness of the next-state relation.                     *)
(***************************************************************************)
RetryInit ==
  /\ pc = "idle"
  /\ op = "none"
  /\ command = <<>>
  /\ sock = [rd |-> <<>>, eof |-> "timeout", late |-> <<>>, sent |-> <<>>,
             cuts |-> MaxCuts - MaxCloses, fails |-> MaxFails, honest |-> TRUE]
  /\ acc = DefaultObject
  /\ found_any = FALSE
  /\ buf = <<>>
  /\ result = Pending
  /\ io = <<>>
  /\ closes = 0
  /\ lost = FALSE
  /\ rounds = 0
  /\ RestIdle

\* ProtoClient::new before one of the three reads
RetryNew ==
  /\ pc = "idle"
  /\ \E o \in LineReads : NewWith(o, CmdOne)
  /\ UNCHANGED others

RetryNext == RetryNew \/ ReadOk \/ ReadResponse \/ ReadOptResponse

RetrySpec == RetryInit /\ [][RetryNext]_vars /\ WF_vars(RetryNext)

\* C25: the three reads have no retry cap: whatever the number of recoveries
\* so far, a connection-closed is followed by one more reconnect and one more
\* write of the command, and the same read starts again; when the connection
\* is closed finitely often and every reconnect and write succeeds, the read
\* returns.
C25_RetriesWithoutCapAndReturns ==
  /\ [][ (pc \in LineReads /\ NextLine.res = ErrClientClosed) =>
           /\ closes' = closes + 1
           /\ io' = <<Closed, Rc("ok"), Wr(WireCommand, "ok")>>
           /\ pc' = pc
           /\ result' = Pending
       ]_vars
  /\ (pc \in LineReads) ~> (pc = "done")

\* a read that returned after two recoveries
C25_Witness ==
  /\ op = "read_response"
  /\ pc = "done"
  /\ closes = 2
  /\ sock.sent = RespA
  /\ result.t = "OkObj"

(***************************************************************************)
(* main.rs: the main task and the status update loop.                      *)
(*   task         pc is "main" until the main task is spawned, "loop"      *)
(*                while it runs, "ended" after the break and "panicked"    *)
(*                after a failed expect; status is state.status (the play  *)
(*                state), log the messages of error! in the last turn of   *)
(*                the loop, event and outcome what that turn handled       *)
(*   render_loop  pc is the position of the spawned thread ("absent" when  *)
(*                no interval is configured), chan the LoopEvent channel,  *)
(*                updates the RequestStatusUpdate events that wait in the  *)
(*                AppEvent channel; started and sent tell whether start    *)
(*                was called and whether an update was ever sent           *)
(***************************************************************************)
PlayStates == {"Play", "Pause", "Stop"}

KeyHandleResults == {"SkipRender", "Quit", "RenderRequested", "Err"}

IdleEvents == {"Mixer", "Player", "Options", "Playlist", "Database"}

\* config.ui.album_art_width_percent: off, and a width
Percents == {0, 50}

\* variant: the loop starts at once
RenderLoopNewStarted(interval) ==
  [pc |-> IF interval THEN "try_recv" ELSE "absent", chan |-> <<>>,
   updates |-> 0, started |-> FALSE, sent |-> FALSE, last |-> "none"]

\* RenderLoop::new: a Stop is in the channel before the thread is spawned
RenderLoopNew(interval) ==
  [pc |-> IF interval THEN "try_recv" ELSE "absent", chan |-> <<"Stop">>,
   updates |-> 0, started |-> FALSE, sent |-> FALSE, last |-> "none"]

\* the main task before it is spawned, with status st and width percent
TaskNew(st, percent) ==
  [pc |-> "main", status |-> st, render_wanted |-> FALSE, log |-> <<>>,
   event |-> "none", outcome |-> "none", drawn |-> FALSE, idle |-> "none",
   art |-> FALSE, inq |-> FALSE, percent |-> percent,
   logs |-> <<>>, received |-> 0, budget |-> MaxLogs]

MainInit ==
  /\ ClientIdle
  /\ lrc = [pc |-> "none"]
  /\ idle_task = [pc |-> "none"]
  /\ albums = [pc |-> "none"]
  /\ \E st \in PlayStates, percent \in Percents : task = TaskNew(st, percent)
  /\ \E interval \in BOOLEAN : render_loop = RenderLoopNew(interval)

\* the process runs until the main task ends
Running == task.pc \in {"main", "loop"}

\* RenderLoop::start and RenderLoop::stop: the loop after the call
Send(rl, ev) ==
  IF rl.pc = "absent" THEN rl ELSE [rl EXCEPT !.chan = Append(rl.chan, ev), !.last = ev]

start(rl) == [Send(rl, "Start") EXCEPT !.started = TRUE]

stop(rl) == Send(rl, "Stop")

CanSend == Len(render_loop.chan) < MaxLoopEvents

\* main: the start of the loop when a song plays, and the spawn of the task
MainStart ==
  /\ task.pc = "main"
  /\ CanSend
  /\ render_loop' = IF task.status = "Play" THEN start(render_loop) ELSE render_loop
  /\ task' = [task EXCEPT !.pc = "loop"]
  /\ UNCHANGED <<client, lrc, idle_task, albums>>

\* the thread of RenderLoop::new at rx.try_recv()
LoopTryRecv ==
  /\ Running
  /\ render_loop.pc = "try_recv"
  /\ render_loop' =
       IF render_loop.chan = <<>> THEN [render_loop EXCEPT !.pc = "sleep"]
       ELSE IF Head(render_loop.chan) = "Stop"
       THEN [render_loop EXCEPT !.pc = "waiting", !.chan = Tail(render_loop.chan)]
       ELSE [render_loop EXCEPT !.pc = "sleep", !.chan = Tail(render_loop.chan)]
  /\ UNCHANGED <<client, task, lrc, idle_task, albums>>

\* variant: any message ends the wait
ResumesOnAny(ev) == TRUE

\* if let Ok(LoopEvent::Start) = rx.recv() { break; }
Resumes(ev) == ev = "Start"

\* the inner loop over rx.recv(), which blocks on an empty channel
LoopRecv ==
  /\ Running
  /\ render_loop.pc = "waiting"
  /\ render_loop.chan # <<>>
  /\ render_loop' =
       [render_loop EXCEPT !.pc = IF Resumes(Head(render_loop.chan)) THEN "sleep" ELSE "waiting",
                           !.chan = Tail(render_loop.chan)]
  /\ UNCHANGED <<client, task, lrc, idle_task, albums>>

\* the sleep and render_sender.send(AppEvent::RequestStatusUpdate)
LoopSend ==
  /\ Running
  /\ render_loop.pc = "sleep"
  /\ render_loop.updates < MaxUpdates
  /\ render_loop' = [render_loop EXCEPT !.pc = "try_recv", !.updates = @ + 1, !.sent = TRUE]
  /\ UNCHANGED <<client, task, lrc, idle_task, albums>>

\* the task after the match on the event ev of a turn of the loop
Seen(ev, out, st, msgs) ==
  [task EXCEPT !.status = st, !.log = msgs, !.event = ev, !.outcome = out,
               !.drawn = FALSE, !.idle = "none", !.art = FALSE, !.inq = FALSE]

\* variant: the throttle drops the wish for a frame
ThrottledForgetting(t) == [t EXCEPT !.render_wanted = FALSE]

\* the continue of the frame that is not yet due: render_wanted is kept
Throttled(t) == [t EXCEPT !.render_wanted = TRUE]

\* the end of a turn of the loop of main_task: the frame is drawn when one
\* is wanted and due; st, rw and msgs are what the match on the event left
Turn(ev, out, st, rw, msgs) ==
  IF ~rw
  THEN {[Seen(ev, out, st, msgs) EXCEPT !.render_wanted = FALSE]}
  ELSE {Throttled(Seen(ev, out, st, msgs)),
        [Seen(ev, out, st, msgs) EXCEPT !.render_wanted = FALSE, !.drawn = TRUE],
        [Seen(ev, out, st, Append(msgs, "Failed to render a frame"))
           EXCEPT !.render_wanted = FALSE, !.drawn = TRUE],
        [Seen(ev, out, st, msgs) EXCEPT !.pc = "panicked", !.render_wanted = TRUE]}

\* AppEvent::UserInput
HandleUserInput ==
  /\ task.pc = "loop"
  /\ \E res \in KeyHandleResults :
       task' \in
         IF res = "SkipRender"
         THEN {Seen("UserInput", res, task.status, <<>>)}
         ELSE IF res = "Quit"
         THEN {[Seen("UserInput", res, task.status, <<>>) EXCEPT !.pc = "ended"]}
         ELSE IF res = "RenderRequested"
         THEN Turn("UserInput", res, task.status, TRUE, <<>>)
         ELSE Turn("UserInput", res, task.status, TRUE, <<"Key handler failed">>)
  /\ UNCHANGED <<client, render_loop, lrc, idle_task, albums>>

\* AppEvent::Status
HandleStatus ==
  /\ task.pc = "loop"
  /\ task' \in Turn("Status", "Ok", task.status, TRUE, <<>>)
  /\ UNCHANGED <<client, render_loop, lrc, idle_task, albums>>

\* state.logs.len() > 1000
LogLimit == 1000

\* variant: nothing is dropped from the log buffer
PushLogKeepingAll(logs, msg) == Append(logs, msg)

\* state.logs.push_back(msg) and, beyond the limit, pop_front()
PushLog(logs, msg) ==
  IF Len(logs) + 1 > LogLimit THEN Tail(Append(logs, msg)) ELSE Append(logs, msg)

\* AppEvent::Log; the messages are numbered in the order of their arrival
HandleLog ==
  /\ task.pc = "loop"
  /\ task.budget > 0
  /\ task' \in {[t EXCEPT !.logs = PushLog(task.logs, task.received + 1),
                          !.received = task.received + 1,
                          !.budget = task.budget - 1] :
                  t \in Turn("Log", "Ok", task.status, task.render_wanted, <<>>)}
  /\ UNCHANGED <<client, render_loop, lrc, idle_task, albums>>

\* !x on the width, an unsigned integer of PercentBits bits
PercentBits == 16
NotBits(x) == (2 ^ PercentBits - 1) - x

\* if !state.config.ui.album_art_width_percent != 0
ArtWanted(percent) == NotBits(percent) # 0

\* variant: the loop is started whatever the player does
AfterPlayerStarting(n, rl) == start(rl)

\* if state.status.state == Play { render_loop.start()? } else { render_loop.stop()? }
AfterPlayer(n, rl) == IF n = "Play" THEN start(rl) ELSE stop(rl)

\* IdleEvent::Player once the status n was fetched; inq tells whether the
\* song of the status is in the queue
PlayerOutcomes(n, inq, rl, percent) ==
  IF inq /\ ArtWanted(percent)
  THEN {[status |-> n, rl |-> rl, out |-> "Err", art |-> TRUE, inq |-> inq],
        [status |-> n, rl |-> AfterPlayer(n, rl), out |-> "Ok", art |-> TRUE, inq |-> inq]}
  ELSE {[status |-> n, rl |-> AfterPlayer(n, rl), out |-> "Ok", art |-> FALSE, inq |-> inq]}

\* handle_idle_event: the status and the loop it leaves, whether it failed
\* and whether it asked for the album art; a failure after the status was
\* stored keeps the new status
IdleOutcomes(event, st, rl, percent) ==
  IF event = "Player"
  THEN {[status |-> st, rl |-> rl, out |-> "Err", art |-> FALSE, inq |-> FALSE]}
       \cup UNION {PlayerOutcomes(n, inq, rl, percent) : n \in PlayStates, inq \in BOOLEAN}
  ELSE IF event = "Options"
  THEN {[status |-> st, rl |-> rl, out |-> "Err", art |-> FALSE, inq |-> FALSE]}
       \cup {[status |-> n, rl |-> rl, out |-> "Ok", art |-> FALSE, inq |-> FALSE] :
               n \in PlayStates}
  ELSE IF event \in {"Mixer", "Playlist"}
  THEN {[status |-> st, rl |-> rl, out |-> o, art |-> FALSE, inq |-> FALSE] :
          o \in {"Err", "Ok"}}
  ELSE {[status |-> st, rl |-> rl, out |-> "Ok", art |-> FALSE, inq |-> FALSE]}

\* AppEvent::IdleEvent
HandleIdleEvent ==
  /\ task.pc = "loop"
  /\ CanSend
  /\ \E event \in IdleEvents :
       \E o \in IdleOutcomes(event, task.status, render_loop, task.percent) :
         /\ render_loop' = o.rl
         /\ task' \in {[t EXCEPT !.idle = event, !.art = o.art, !.inq = o.inq] :
                         t \in Turn("IdleEvent", o.out, o.status, TRUE,
                                    IF o.out = "Err" THEN <<"Failed handle idle event">>
                                    ELSE <<>>)}
  /\ UNCHANGED <<client, lrc, idle_task, albums>>

\* variant: a failed update resets the stored status
StatusAfterFailureReset(st) == "Stop"

\* the Err arm of the match on client.get_status(): state.status is kept
StatusAfterFailure(st) == st

\* AppEvent::RequestStatusUpdate, sent by the status update loop
HandleRequestStatusUpdate ==
  /\ task.pc = "loop"
  /\ render_loop.updates > 0
  /\ render_loop' = [render_loop EXCEPT !.updates = @ - 1]
  /\ \/ \E n \in PlayStates :
          task' \in Turn("RequestStatusUpdate", "Ok", n, TRUE, <<>>)
     \/ task' \in Turn("RequestStatusUpdate", "Err", StatusAfterFailure(task.status), TRUE,
                       <<"Unable to send render command from status update loop">>)
  /\ UNCHANGED <<client, lrc, idle_task, albums>>

\* AppEvent::RequestRender
HandleRequestRender ==
  /\ task.pc = "loop"
  /\ task' \in Turn("RequestRender", "Ok", task.status, TRUE, <<>>)
  /\ UNCHANGED <<client, render_loop, lrc, idle_task, albums>>

\* recv_timeout gives no event: the frame that is wanted was not yet due
RecvTimeout ==
  /\ task.pc = "loop"
  /\ task.render_wanted
  /\ task' \in Turn("none", "none", task.status, TRUE, <<>>)
  /\ UNCHANGED <<client, render_loop, lrc, idle_task, albums>>

MainNext ==
  \/ MainStart
  \/ LoopTryRecv
  \/ LoopRecv
  \/ LoopSend
  \/ HandleUserInput
  \/ HandleStatus
  \/ HandleLog
  \/ HandleIdleEvent
  \/ HandleRequestStatusUpdate
  \/ HandleRequestRender
  \/ RecvTimeout

MainSpec == MainInit /\ [][MainNext]_vars

\* the message of error! for a failure in the handling of an event
FailureMessage(ev) ==
  IF ev = "UserInput" THEN "Key handler failed"
  ELSE IF ev = "IdleEvent" THEN "Failed handle idle event"
  ELSE "Unable to send render command from status update loop"

\* C26 as stated: a failed key handler, idle-event handler or status update
\* is logged and the loop goes on; a failed status update keeps the stored
\* status; the loop ends only when a key handler returns Quit.
C26_FailuresLoggedLoopGoesOn ==
  [][ task.pc = "loop" =>
        /\ task'.outcome = "Err" =>
             /\ task'.log # <<>>
             /\ task'.log[1] = FailureMessage(task'.event)
             /\ task'.pc = "loop"
        /\ (task'.event = "RequestStatusUpdate" /\ task'.outcome = "Err") =>
             task'.status = task.status
        /\ task'.pc # "loop" => (task'.event = "UserInput" /\ task'.outcome = "Quit")
    ]_vars

\* C26, amended: a failure of the three kinds is logged and the loop goes on
\* unless the frame wanted after it cannot be drawn; a failed status update
\* keeps the stored status; the loop ends by its break only when a key
\* handler returns Quit, and otherwise only by the panic of a failed draw.
C26_LoopEndsByQuitOrFailedDraw ==
  [][ task.pc = "loop" =>
        /\ task'.outcome = "Err" =>
             /\ task'.log # <<>>
             /\ task'.log[1] = FailureMessage(task'.event)
             /\ task'.pc \in {"loop", "panicked"}
        /\ (task'.event = "RequestStatusUpdate" /\ task'.outcome = "Err") =>
             task'.status = task.status
        /\ task'.pc = "ended" => (task'.event = "UserInput" /\ task'.outcome = "Quit")
        /\ task'.pc = "panicked" => (task'.render_wanted /\ task'.outcome # "Quit")
    ]_vars

\* a failed status update while a song plays, after which the frame was drawn
C26_Witness ==
  /\ task.pc = "loop"
  /\ task.event = "RequestStatusUpdate"
  /\ task.outcome = "Err"
  /\ task.log = <<"Unable to send render command from status update loop">>
  /\ task.status = "Play"
  /\ ~task.render_wanted

\* C27: the status update loop sends no RequestStatusUpdate before start is
\* called for the first time.
C27_NoUpdateBeforeStart ==
  ~render_loop.started => (~render_loop.sent /\ render_loop.updates = 0)

\* the Stop of the construction was consumed, a later Stop too, and the
\* thread waits for a Start that was never sent
C27_Witness ==
  /\ task.pc = "loop"
  /\ task.event = "IdleEvent"
  /\ ~render_loop.started
  /\ render_loop.pc = "waiting"
  /\ render_loop.chan = <<>>
  /\ ~render_loop.sent

\* C30 as stated: in the recovery from a closed connection of read_ok,
\* read_response, read_opt_response and the first round of read_bin, a
\* failed reconnect or a failed write of the command is the last I/O of the
\* operation, which returns that error.
C30_FailedRecoveryStopsAtOnce ==
  [][ (pc \in LineReads \cup {"read_bin"} /\ Len(io') >= 2 /\ io'[1] = Closed) =>
        /\ io'[2].e = "reconnect"
        /\ io'[2].r # "ok" => (Len(io') = 2 /\ pc' = "done" /\ result' = ErrReconnect)
        /\ io'[2].r = "ok" =>
             /\ Len(io') >= 3
             /\ io'[3].e = "write"
             /\ io'[3].r # "ok" =>
                  (Len(io') = 3 /\ pc' = "done" /\ result' = ErrIo(io'[3].r))
    ]_vars

\* C30, amended: a failed reconnect of the recovery is returned with no
\* further I/O; a write of the command that fails with another error than a
\* broken pipe is returned with no further I/O; after a broken pipe execute
\* reconnects once more and, when that succeeds, writes once more, and the
\* failure of either is returned with no further I/O.
C30_FailedRecoveryIsReturned ==
  [][ (pc \in LineReads \cup {"read_bin"} /\ Len(io') >= 2 /\ io'[1] = Closed) =>
        /\ io'[2].e = "reconnect"
        /\ io'[2].r # "ok" => (Len(io') = 2 /\ pc' = "done" /\ result' = ErrReconnect)
        /\ io'[2].r = "ok" =>
             /\ Len(io') >= 3
             /\ io'[3].e = "write"
             /\ io'[3].r = "ok" => (Len(io') = 3 /\ pc' # "done")
             /\ io'[3].r \notin {"ok", "BrokenPipe"} =>
                  (Len(io') = 3 /\ pc' = "done" /\ result' = ErrIo(io'[3].r))
             /\ io'[3].r = "BrokenPipe" =>
                  /\ Len(io') >= 4
                  /\ io'[4].e = "reconnect"
                  /\ io'[4].r # "ok" =>
                       (Len(io') = 4 /\ pc' = "done" /\ result' = ErrReconnect)
                  /\ io'[4].r = "ok" =>
                       /\ Len(io') = 5
                       /\ io'[5].e = "write" /\ io'[5].bytes = io'[3].bytes
                       /\ io'[5].r = "ok" => pc' # "done"
                       /\ io'[5].r # "ok" => (pc' = "done" /\ result' = ErrIo(io'[5].r))
    ]_vars

\* a recovery whose write met a broken pipe and whose retried write failed
C30_Witness ==
  /\ op \in LineReads
  /\ pc = "done"
  /\ Len(io) = 5
  /\ io[1] = Closed
  /\ io[2] = Rc("ok")
  /\ io[3] = Wr(WireCommand, "BrokenPipe")
  /\ io[4] = Rc("ok")
  /\ io[5] = Wr(WireCommand, "Other")
  /\ result = ErrIo("Other")

(***************************************************************************)
(* The status update loop beside the main task, with a thread in            *)
(* RenderLoop.  The thread is scheduled, and the main task, while it runs,  *)
(* receives the events that wait in its channel: weak fairness of the       *)
(* steps of the thread and of the handling of RequestStatusUpdate.          *)
(***************************************************************************)
LoopInit == MainInit /\ render_loop.pc = "try_recv" /\ task.percent = 0

LoopThread == LoopTryRecv \/ LoopRecv \/ LoopSend

LoopNext ==
  \/ MainStart
  \/ LoopTryRecv
  \/ LoopRecv
  \/ LoopSend
  \/ HandleIdleEvent
  \/ HandleRequestStatusUpdate

LoopSpec ==
  /\ LoopInit
  /\ [][LoopNext]_vars
  /\ WF_vars(LoopThread)
  /\ WF_vars(HandleRequestStatusUpdate)

\* C32: while the main task runs, when the last call on RenderLoop is stop
\* the thread ends up waiting for a Start, where it sends no update, and
\* when it is start the thread ends up in its update loop and sends updates
\* again and again; the messages leave the channel from its head, one at a
\* time, and after the one taken by try_recv the thread sleeps or waits.
C32_LastCallDecides ==
  /\ ([]Running /\ <>[](render_loop.last = "Stop")) => <>[](render_loop.pc = "waiting")
  /\ ([]Running /\ <>[](render_loop.last = "Start")) =>
        (<>[](render_loop.pc \in {"try_recv", "sleep"}) /\ []<><<LoopSend>>_vars)
  /\ [][ Len(render_loop'.chan) < Len(render_loop.chan) =>
           /\ render_loop'.chan = Tail(render_loop.chan)
           /\ render_loop.pc \in {"try_recv", "waiting"}
           /\ render_loop.pc = "try_recv" => render_loop'.pc \in {"sleep", "waiting"}
       ]_vars

\* the loop ran, was stopped and waits on an empty channel
C32_Witness ==
  /\ task.pc = "loop"
  /\ render_loop.last = "Stop"
  /\ render_loop.started
  /\ render_loop.sent
  /\ render_loop.pc = "waiting"
  /\ render_loop.chan = <<>>

\* a step of the main task that handled an idle event: the thread of the
\* loop did not move and no update left the channel of the main task
IdleStep ==
  /\ task.pc = "loop"
  /\ task'.event = "IdleEvent"
  /\ render_loop'.pc = render_loop.pc
  /\ render_loop'.updates = render_loop.updates
  /\ Len(render_loop'.chan) >= Len(render_loop.chan)

\* C33: a Player idle event handled without error sends one message to the
\* status update loop, Start when the status just fetched is Play and Stop
\* otherwise; when the handling fails at the fetch of the song, of the
\* status or of the album art, nothing is sent.
C33_PlayerEventSendsStartOrStop ==
  [][ (IdleStep /\ task'.idle = "Player" /\ render_loop.pc # "absent") =>
        /\ task'.outcome = "Ok" =>
             /\ render_loop'.chan =
                  Append(render_loop.chan, IF task'.status = "Play" THEN "Start" ELSE "Stop")
             /\ render_loop'.last = IF task'.status = "Play" THEN "Start" ELSE "Stop"
        /\ task'.outcome = "Err" =>
             (render_loop'.chan = render_loop.chan /\ render_loop'.last = render_loop.last)
    ]_vars

\* the player paused after the loop had been started: a Stop was sent
C33_Witness ==
  /\ task.pc = "loop"
  /\ task.event = "IdleEvent"
  /\ task.idle = "Player"
  /\ task.outcome = "Ok"
  /\ task.status = "Pause"
  /\ render_loop.started
  /\ render_loop.last = "Stop"
  /\ render_loop.chan = <<"Stop">>

\* C34 as stated: with a width of zero a Player idle event asks for no
\* album art; the album art is asked for only when the width is not zero
\* and the current song is in the queue.
C34_NoAlbumArtWhenDisabled ==
  (task.pc # "none" /\ task.art) => (task.percent # 0 /\ task.inq)

\* the event of the last turn is one that sets render_wanted
SetsRenderWanted ==
  \/ task.event \in {"Status", "IdleEvent", "RequestStatusUpdate", "RequestRender"}
  \/ task.event = "UserInput" /\ task.outcome \in {"RenderRequested", "Err"}

\* C35: render_wanted, once set, stays set until a frame is drawn, in the
\* turn that set it and in the turns that follow, and a Log event does not
\* set it.
C35_RenderWantedUntilDrawn ==
  /\ []((task.pc = "loop" /\ SetsRenderWanted) => (task.render_wanted \/ task.drawn))
  /\ [][ (task.pc = "loop" /\ task.render_wanted /\ ~task'.render_wanted) => task'.drawn ]_vars
  /\ [][ (task.pc = "loop" /\ ~task.render_wanted /\ task'.received # task.received) =>
           ~task'.render_wanted ]_vars

\* a key that asked to skip the frame while one was wanted
C35_Witness ==
  /\ task.pc = "loop"
  /\ task.event = "UserInput"
  /\ task.outcome = "SkipRender"
  /\ task.render_wanted
  /\ ~task.drawn

(***************************************************************************)
(* The log buffer of the main task when it is about to be full: the task   *)
(* has received LogLimit - 1 or LogLimit messages and nothing else.        *)
(***************************************************************************)
LogInit ==
  /\ ClientIdle
  /\ lrc = [pc |-> "none"]
  /\ idle_task = [pc |-> "none"]
  /\ albums = [pc |-> "none"]
  /\ render_loop = RenderLoopNew(FALSE)
  /\ \E n \in {LogLimit - 1, LogLimit} :
       task = [TaskNew("Stop", 0) EXCEPT !.pc = "loop", !.event = "Log", !.outcome = "Ok",
                                         !.logs = [i \in 1..n |-> i], !.received = n,
                                         !.budget = MaxLogs + 1]

LogNext ==
  \/ HandleLog
  \/ HandleUserInput
  \/ HandleStatus
  \/ HandleIdleEvent
  \/ HandleRequestRender
  \/ RecvTimeout

LogSpec == LogInit /\ [][LogNext]_vars

\* C36: the log buffer holds at most 1000 messages, the latest received, in
\* the order of their arrival.
C36_LogsAreTheLatest ==
  /\ Len(task.logs) <= 1000
  /\ Len(task.logs) = (IF task.received < 1000 THEN task.received ELSE 1000)
  /\ \A i \in 1..Len(task.logs) : task.logs[i] = task.received - Len(task.logs) + i

\* two messages arrived at a full buffer
C36_Witness ==
  /\ task.received = 1002
  /\ Len(task.logs) = 1000
  /\ task.logs[1] = 3
  /\ task.logs[1000] = 1002

(***************************************************************************)
(* main.rs: idle_task.  idle_task.error_count is the counter of the task,  *)
(* fails and oks the failed and the successful calls of idle() so far, got *)
(* the events those calls returned and sent the events given to the        *)
(* channel of the main task, both in order.                                *)
(***************************************************************************)
IdleTaskInit ==
  /\ ClientIdle
  /\ task = [pc |-> "none"]
  /\ render_loop = [pc |-> "none"]
  /\ lrc = [pc |-> "none"]
  /\ albums = [pc |-> "none"]
  /\ idle_task = [pc |-> "loop", error_count |-> 0, fails |-> 0, oks |-> 0,
                  got |-> <<>>, sent |-> <<>>]

\* what a call of idle() may return
IdleBatches == {<<>>, <<"Player">>, <<"Mixer", "Player">>}

\* variant: the task gives up one failure earlier
GivesUpEarly(error_count) == error_count >= 5

\* if error_count > 5 { break; }
GivesUp(error_count) == error_count > 5

\* idle_client.idle() returned events: each is sent to the main task
IdleCallOk ==
  /\ idle_task.pc = "loop"
  /\ idle_task.oks < MaxIdleCalls
  /\ \E events \in IdleBatches :
       idle_task' = [idle_task EXCEPT !.oks = @ + 1, !.got = @ \o events,
                                      !.sent = @ \o events]
  /\ UNCHANGED <<client, task, render_loop, lrc, albums>>

\* idle_client.idle() failed
IdleCallErr ==
  /\ idle_task.pc = "loop"
  /\ idle_task' =
       IF GivesUp(idle_task.error_count)
       THEN [idle_task EXCEPT !.pc = "exited", !.fails = @ + 1]
       ELSE [idle_task EXCEPT !.error_count = @ + 1, !.fails = @ + 1]
  /\ UNCHANGED <<client, task, render_loop, lrc, albums>>

IdleTaskNext == IdleCallOk \/ IdleCallErr

IdleTaskSpec == IdleTaskInit /\ [][IdleTaskNext]_vars

\* C37: the counter of the idle task is the number of failed calls so far,
\* whatever the successful calls in between; the task goes on after each of
\* the first six failures and ends at the seventh; the events sent to the
\* main task are the events received, each once and in order.
C37_SeventhFailureEnds ==
  /\ [](idle_task.pc = "loop" => (idle_task.fails <= 6 /\ idle_task.error_count = idle_task.fails))
  /\ [](idle_task.pc = "exited" <=> idle_task.fails = 7)
  /\ [](idle_task.sent = idle_task.got)
  /\ [][ idle_task'.oks # idle_task.oks =>
           (idle_task'.error_count = idle_task.error_count /\ idle_task'.pc = "loop") ]_vars

\* the task ended at its seventh failure, after calls that succeeded
C37_Witness ==
  /\ idle_task.pc = "exited"
  /\ idle_task.fails = 7
  /\ idle_task.oks = MaxIdleCalls
  /\ Len(idle_task.sent) >= 2
  /\ idle_task.sent[1] = "Mixer"

(***************************************************************************)
(* ui/screens/albums.rs: AlbumsScreen::handle_action.  albums holds        *)
(* filter_input_mode, stack.filter (some and val), the depth of the path   *)
(* of the stack, and of the last call its key, its result and whether it   *)
(* sent a command to the server.  DirStack is not part of the sources at   *)
(* hand: its moves leave the filter alone or clear it, and its jumps to a  *)
(* match leave it alone.                                                   *)
(***************************************************************************)
Key(code, c, action) == [code |-> code, c |-> c, action |-> action]

\* the keys pressed, each with the action the keybinds give it
Keys ==
  {Key("Char", "a", "EnterSearch"), Key("Char", "b", "AddAll"), Key("Backspace", "", "Left"),
   Key("Enter", "", "Right"), Key("Esc", "", "none"), Key("Tab", "", "Down"),
   Key("F1", "", "NextResult")}

FilterNone == [some |-> FALSE, val |-> <<>>]

AlbumsInit ==
  /\ ClientIdle
  /\ task = [pc |-> "none"]
  /\ render_loop = [pc |-> "none"]
  /\ lrc = [pc |-> "none"]
  /\ idle_task = [pc |-> "none"]
  /\ albums = [pc |-> "screen", filter_input_mode |-> FALSE, filter |-> FilterNone,
               depth |-> 0, key |-> Key("none", "", "none"), res |-> "none", sent |-> FALSE]

\* the screen after a call with key that returned res; sent tells whether a
\* command went to the server
Called(a, key, res, sent) == [a EXCEPT !.key = key, !.res = res, !.sent = sent]

\* the branch of filter_input_mode
FilterInput(a, key) ==
  IF key.code = "Char"
  THEN {[Called(a, key, "RenderRequested", FALSE)
           EXCEPT !.filter = IF a.filter.some
                             THEN [some |-> TRUE, val |-> Append(a.filter.val, key.c)]
                             ELSE a.filter]}
  ELSE IF key.code = "Backspace"
  THEN {[Called(a, key, "RenderRequested", FALSE)
           EXCEPT !.filter = IF a.filter.some /\ a.filter.val # <<>>
                             THEN [some |-> TRUE,
                                   val |-> SubSeq(a.filter.val, 1, Len(a.filter.val) - 1)]
                             ELSE a.filter]}
  ELSE IF key.code = "Enter"
  THEN {[Called(a, key, "RenderRequested", FALSE) EXCEPT !.filter_input_mode = FALSE]}
  ELSE IF key.code = "Esc"
  THEN {[Called(a, key, "RenderRequested", FALSE)
           EXCEPT !.filter_input_mode = FALSE, !.filter = FilterNone]}
  ELSE {Called(a, key, "SkipRender", FALSE)}

\* a command to the server and what follows it: a failure is returned
Served(a, key) == {Called(a, key, "RenderRequested", TRUE), Called(a, key, "Err", TRUE)}

\* a move of the stack to the depth d, the filter kept or cleared
Moved(a, d) == {[a EXCEPT !.depth = d], [a EXCEPT !.depth = d, !.filter = FilterNone]}

\* variant: EnterSearch leaves the filter as it is
SearchFilterKept(f) == f

\* self.stack.filter = Some(String::new())
SearchFilter(f) == [some |-> TRUE, val |-> <<>>]

\* the branches of the keybinds, outside filter_input_mode
Bound(a, key) ==
  IF key.action = "AddAll"
  THEN Served(a, key) \cup {Called(a, key, "SkipRender", FALSE)}
  ELSE IF key.action = "Down"
  THEN Served(a, key) \cup {Called(a, key, "RenderRequested", FALSE)}
  ELSE IF key.action = "Right"
  THEN {Called(a, key, "RenderRequested", FALSE), Called(a, key, "Err", TRUE)}
       \cup UNION {Served(m, key) : m \in Moved(a, 1)}
  ELSE IF key.action = "Left"
  THEN UNION {Served(m, key) \cup {Called(m, key, "RenderRequested", FALSE)} :
                m \in Moved(a, 0)}
  ELSE IF key.action = "EnterSearch"
  THEN {[Called(a, key, "RenderRequested", FALSE)
           EXCEPT !.filter_input_mode = TRUE, !.filter = SearchFilter(a.filter)]}
  ELSE IF key.action = "NextResult"
  THEN {Called(a, key, "RenderRequested", FALSE)}
  ELSE {Called(a, key, "KeyNotHandled", FALSE)}

handle_action(a, key) == IF a.filter_input_mode THEN FilterInput(a, key) ELSE Bound(a, key)

\* a call of handle_action with one of the keys
HandleAction ==
  /\ albums.pc = "screen"
  /\ \E key \in Keys :
       /\ (albums.filter_input_mode /\ key.code = "Char") => Len(albums.filter.val) < MaxFilter
       /\ albums' \in handle_action(albums, key)
  /\ UNCHANGED <<client, task, render_loop, lrc, idle_task>>

AlbumsNext == HandleAction

AlbumsSpec == AlbumsInit /\ [][AlbumsNext]_vars

\* C39: EnterSearch enters the filter input mode with an empty filter; in
\* the mode a character is appended to the filter, Backspace removes its
\* last character, Enter leaves the mode and keeps the filter, Esc leaves
\* it and clears the filter; in the mode no call sends a command to the
\* server or reaches a keybind; and the mode implies a filter.
C39_FilterInputMode ==
  /\ [](albums.filter_input_mode => albums.filter.some)
  /\ [][ (~albums.filter_input_mode /\ albums'.key.action = "EnterSearch") =>
           (albums'.filter_input_mode /\ albums'.filter = [some |-> TRUE, val |-> <<>>]) ]_vars
  /\ [][ albums.filter_input_mode =>
           /\ ~albums'.sent
           /\ albums'.res \in {"RenderRequested", "SkipRender"}
           /\ albums'.depth = albums.depth
           /\ albums'.key.code = "Char" =>
                /\ albums'.filter_input_mode
                /\ albums'.filter = [some |-> TRUE, val |-> Append(albums.filter.val, albums'.key.c)]
           /\ albums'.key.code = "Backspace" =>
                /\ albums'.filter_input_mode
                /\ albums'.filter.some
                /\ albums'.filter.val =
                     SubSeq(albums.filter.val, 1, Len(albums.filter.val) - 1)
           /\ albums'.key.code = "Enter" =>
                (~albums'.filter_input_mode /\ albums'.filter = albums.filter)
           /\ albums'.key.code = "Esc" =>
                (~albums'.filter_input_mode /\ ~albums'.filter.some)
           /\ albums'.key.code \notin {"Char", "Backspace", "Enter", "Esc"} =>
                (albums'.filter_input_mode /\ albums'.filter = albums.filter)
       ]_vars

\* a filter of two characters, one of them removed, kept by Enter
C39_Witness ==
  /\ albums.pc = "screen"
  /\ albums.key.code = "Enter"
  /\ ~albums.filter_input_mode
  /\ albums.filter = [some |-> TRUE, val |-> <<"b">>]
  /\ albums.res = "RenderRequested"
  /\ ~albums.sent

(***************************************************************************)
(* shared/lrc/lyrics.rs: Lrc::from_str.  lrc.input is the lines of the     *)
(* text (s.lines()), lrc.desc what each of them was written from and       *)
(* lrc.result the outcome: ok and the entries, or the failure.  The times  *)
(* of this model are far below 2^64, where the sums of from_str wrap or    *)
(* saturate.                                                               *)
(***************************************************************************)
IsWhitespace(c) == c \in {" ", "\t", "\r"}

RECURSIVE TrimStart(_)
TrimStart(s) == IF s # <<>> /\ IsWhitespace(Head(s)) THEN TrimStart(Tail(s)) ELSE s

RECURSIVE TrimEnd(_)
TrimEnd(s) ==
  IF s # <<>> /\ IsWhitespace(s[Len(s)]) THEN TrimEnd(SubSeq(s, 1, Len(s) - 1)) ELSE s

\* str::trim
Trim(s) == TrimEnd(TrimStart(s))

\* str::parse::<u64>: an optional plus sign and digits; -1 stands for Err
ParseU64(s) ==
  IF s # <<>> /\ Head(s) = "+" THEN ParseUnsigned(Tail(s)) ELSE ParseUnsigned(s)

\* str::parse::<i64>: an optional sign and digits
ParseI64(s) ==
  IF s # <<>> /\ Head(s) = "-"
  THEN [ok |-> ParseUnsigned(Tail(s)) # -1, val |-> 0 - ParseUnsigned(Tail(s))]
  ELSE [ok |-> ParseU64(s) # -1, val |-> ParseU64(s)]

LrcErr(what) == [ok |-> FALSE, err |-> what, offset |-> [some |-> FALSE, val |-> 0], lines |-> <<>>]

\* variant: only a dot is taken before the hundredths
SplitSecondsDot(time_rest) ==
  IF Has(time_rest, ".")
  THEN [some |-> TRUE, seconds |-> Before(time_rest, "."), hundreths |-> After(time_rest, ".")]
  ELSE [some |-> FALSE, seconds |-> <<>>, hundreths |-> <<>>]

\* time_rest.split_once('.').or_else(|| time_rest.split_once(':'))
SplitSeconds(time_rest) ==
  IF Has(time_rest, ".")
  THEN [some |-> TRUE, seconds |-> Before(time_rest, "."), hundreths |-> After(time_rest, ".")]
  ELSE IF Has(time_rest, ":")
  THEN [some |-> TRUE, seconds |-> Before(time_rest, ":"), hundreths |-> After(time_rest, ":")]
  ELSE [some |-> FALSE, seconds |-> <<>>, hundreths |-> <<>>]

\* variant: every offset moves the time later
ApplyOffsetLater(milis, offset) ==
  IF offset.some /\ offset.val > 0 THEN milis + offset.val
  ELSE IF offset.some /\ offset.val < 0 THEN milis + (0 - offset.val)
  ELSE milis

\* the match on offset: saturating_sub and saturating_add
ApplyOffset(milis, offset) ==
  IF offset.some /\ offset.val > 0
  THEN IF milis > offset.val THEN milis - offset.val ELSE 0
  ELSE IF offset.some /\ offset.val < 0
  THEN milis + (0 - offset.val)
  ELSE milis

\* the sum of the three fields, -1 when one of them does not parse
Milis(minutes, seconds, hundreths) ==
  IF ParseU64(minutes) = -1 \/ ParseU64(seconds) = -1 \/ ParseU64(hundreths) = -1
  THEN -1
  ELSE ParseU64(minutes) * 60 * 1000 + ParseU64(seconds) * 1000 + ParseU64(hundreths) * 10

\* the arm of a timestamp: sp is the split of what follows the minutes
LrcTime(cur, minutes, sp, line) ==
  IF ~sp.some THEN LrcErr("Invalid lrc seconds and hundreths format")
  ELSE IF Milis(minutes, sp.seconds, sp.hundreths) = -1 THEN LrcErr("ParseIntError")
  ELSE [cur EXCEPT !.lines =
          Append(@, [time |-> ApplyOffset(Milis(minutes, sp.seconds, sp.hundreths), cur.offset),
                     content |-> line])]

\* variant: the first offset tag of a text is the one that counts
LrcMetaFirstOffset(cur, key, value) ==
  IF key = <<"o","f","f","s","e","t">>
  THEN IF ParseI64(value).ok
       THEN IF cur.offset.some THEN cur
            ELSE [cur EXCEPT !.offset = [some |-> TRUE, val |-> ParseI64(value).val]]
       ELSE LrcErr("ParseIntError")
  ELSE cur

\* the arm of a metadata tag
LrcMeta(cur, key, value) ==
  IF key = <<"o","f","f","s","e","t">>
  THEN IF ParseI64(value).ok
       THEN [cur EXCEPT !.offset = [some |-> TRUE, val |-> ParseI64(value).val]]
       ELSE LrcErr("ParseIntError")
  ELSE cur

\* the match on the first character of meta_or_time
LrcTag(cur, meta_or_time, line) ==
  IF meta_or_time = <<>> THEN LrcErr("Invalid lrc metadata/timestamp")
  ELSE IF IsDigit(Head(meta_or_time))
  THEN IF ~Has(meta_or_time, ":") THEN LrcErr("Invalid lrc minutes format")
       ELSE LrcTime(cur, Before(meta_or_time, ":"), SplitSeconds(After(meta_or_time, ":")), line)
  ELSE IF ~Has(meta_or_time, ":") THEN LrcErr("Invalid metadata line")
       ELSE LrcMeta(cur, Trim(Before(meta_or_time, ":")), Trim(After(meta_or_time, ":")))

\* one turn of the loop over s.lines(); t is s.trim()
LrcTrimmed(cur, t) ==
  IF t = <<>> \/ Head(t) # "[" \/ ~Has(Tail(t), "]") THEN LrcErr("Invalid lrc line format")
  ELSE LrcTag(cur, Before(Tail(t), "]"), After(Tail(t), "]"))

LrcLineOf(cur, s) ==
  IF s = <<>> \/ Head(s) = "#" THEN cur ELSE LrcTrimmed(cur, Trim(s))

\* Lrc::from_str on the lines of the text, from the state cur of the loop
RECURSIVE LrcLoop(_, _)
LrcLoop(cur, ls) ==
  IF ls = <<>> \/ ~cur.ok THEN cur
  ELSE LrcLoop(LrcLineOf(cur, Head(ls)), Tail(ls))

from_str(ls) ==
  LrcLoop([ok |-> TRUE, err |-> "none", offset |-> [some |-> FALSE, val |-> 0], lines |-> <<>>],
          ls)

\* the lines the texts of this model are made of
Desc(kind, mm, ss, hh, sep, text, n) ==
  [kind |-> kind, mm |-> mm, ss |-> ss, hh |-> hh, sep |-> sep, text |-> text, n |-> n]

LrcTimes ==
  {Desc("time", 0, 1, 86, ".", <<"a">>, 0),
   Desc("time", 0, 4, 73, ":", <<"b"," ">>, 0),
   Desc("time", 11, 16, 91, ".", <<>>, 0)}

LrcOffsets == {Desc("offset", 0, 0, 0, ".", <<>>, n) : n \in {1000, 0 - 1000, 0, 5000}}

LrcOthers ==
  {Desc("blank", 0, 0, 0, ".", <<>>, 0), Desc("comment", 0, 0, 0, ".", <<>>, 0),
   Desc("meta", 0, 0, 0, ".", <<>>, 0)}

LrcDescs == LrcTimes \cup LrcOffsets \cup LrcOthers

TwoDigits(n) == <<DigitChars[(n \div 10) + 1], DigitChars[(n % 10) + 1]>>

\* the text of a line
LrcText(d) ==
  IF d.kind = "time"
  THEN <<"[">> \o TwoDigits(d.mm) \o <<":">> \o TwoDigits(d.ss) \o <<d.sep>>
       \o TwoDigits(d.hh) \o <<"]">> \o d.text
  ELSE IF d.kind = "offset"
  THEN <<"[","o","f","f","s","e","t",":"," ">>
       \o (IF d.n < 0 THEN <<"-">> \o Decimal(0 - d.n) ELSE <<"+">> \o Decimal(d.n))
       \o <<"]">>
  ELSE IF d.kind = "comment" THEN <<"#","c">>
  ELSE IF d.kind = "meta" THEN <<"[","t","i",":"," ","t"," ","]">>
  ELSE <<>>

LrcInit ==
  /\ ClientIdle
  /\ task = [pc |-> "none"]
  /\ render_loop = [pc |-> "none"]
  /\ idle_task = [pc |-> "none"]
  /\ albums = [pc |-> "none"]
  /\ \E n \in 0..MaxLrcLines :
       \E ds \in [1..n -> LrcDescs] :
         lrc = [pc |-> "input", desc |-> ds, input |-> [i \in 1..n |-> LrcText(ds[i])],
                result |-> LrcErr("none")]

\* input.parse::<Lrc>()
LrcParse ==
  /\ lrc.pc = "input"
  /\ lrc' = [lrc EXCEPT !.pc = "parsed", !.result = from_str(lrc.input)]
  /\ UNCHANGED <<client, task, render_loop, idle_task, albums>>

LrcNext == LrcParse

LrcSpec == LrcInit /\ [][LrcNext]_vars

\* the time a timestamp stands for, in milliseconds
StampOf(d) == (d.mm * 60 + d.ss) * 1000 + d.hh * 10

\* the positions of the lines of a kind in a text
LinesOfKind(ds, kind) == {i \in 1..Len(ds) : ds[i].kind = kind}

\* the position in the text of the k-th line with a timestamp
StampAt(ds, k) ==
  CHOOSE i \in LinesOfKind(ds, "time") :
    Cardinality({j \in LinesOfKind(ds, "time") : j <= i}) = k

\* a time moved by an offset, as the offset tag is meant
Shifted(t, n) == IF n > 0 THEN (IF t > n THEN t - n ELSE 0) ELSE t - n

\* the value of the offset tag of a text, zero without one
OffsetOf(ds) ==
  IF LinesOfKind(ds, "offset") = {} THEN 0
  ELSE ds[CHOOSE i \in LinesOfKind(ds, "offset") : TRUE].n

\* C28 as stated: the offset tag of a text moves the times of its lyric
\* lines, N milliseconds earlier and not below zero for +N, N milliseconds
\* later for -N, not at all for zero or when there is no tag.
C28_OffsetShiftsTheLines ==
  (lrc.pc = "parsed" /\ Cardinality(LinesOfKind(lrc.desc, "offset")) <= 1) =>
    /\ lrc.result.ok
    /\ Len(lrc.result.lines) = Cardinality(LinesOfKind(lrc.desc, "time"))
    /\ \A k \in 1..Len(lrc.result.lines) :
         lrc.result.lines[k].time =
           Shifted(StampOf(lrc.desc[StampAt(lrc.desc, k)]), OffsetOf(lrc.desc))

\* the value of the last offset tag before line i of a text, zero without one
OffsetBefore(ds, i) ==
  IF \A j \in LinesOfKind(ds, "offset") : j > i THEN 0
  ELSE ds[CHOOSE j \in LinesOfKind(ds, "offset") :
            j < i /\ \A k \in LinesOfKind(ds, "offset") : k < i => k <= j].n

\* C28, amended: in a text with one offset tag the lyric lines after the
\* tag are moved, N milliseconds earlier and not below zero for +N, N
\* milliseconds later for -N, and the lyric lines before the tag are not;
\* without a tag, or with a tag of zero, no line is moved.
C28_OffsetShiftsTheLinesAfter ==
  (lrc.pc = "parsed" /\ Cardinality(LinesOfKind(lrc.desc, "offset")) <= 1) =>
    /\ lrc.result.ok
    /\ Len(lrc.result.lines) = Cardinality(LinesOfKind(lrc.desc, "time"))
    /\ \A k \in 1..Len(lrc.result.lines) :
         lrc.result.lines[k].time =
           IF \E i \in LinesOfKind(lrc.desc, "offset") : i < StampAt(lrc.desc, k)
           THEN Shifted(StampOf(lrc.desc[StampAt(lrc.desc, k)]), OffsetOf(lrc.desc))
           ELSE StampOf(lrc.desc[StampAt(lrc.desc, k)])

\* an offset of five seconds before a line at 1.86 s and one at 11:16.91
C28_Witness ==
  /\ lrc.pc = "parsed"
  /\ Len(lrc.desc) = 3
  /\ lrc.desc[1].kind = "offset" /\ lrc.desc[1].n = 5000
  /\ lrc.result.ok
  /\ Len(lrc.result.lines) = 2
  /\ lrc.result.lines[1].time = 0
  /\ lrc.result.lines[2].time = 671910

\* C38: each lyric line is moved by the last offset tag before it in the
\* text and by none after it: the lines before the first tag keep their
\* time, and a later tag replaces an earlier one for the lines after it.
C38_OffsetCountsFromItsLine ==
  lrc.pc = "parsed" =>
    /\ lrc.result.ok
    /\ Len(lrc.result.lines) = Cardinality(LinesOfKind(lrc.desc, "time"))
    /\ \A k \in 1..Len(lrc.result.lines) :
         lrc.result.lines[k].time =
           Shifted(StampOf(lrc.desc[StampAt(lrc.desc, k)]),
                   OffsetBefore(lrc.desc, StampAt(lrc.desc, k)))

\* a line before the tag keeps its time and the line after it is moved
C38_Witness ==
  /\ lrc.pc = "parsed"
  /\ Len(lrc.desc) = 3
  /\ lrc.desc[1].kind = "time"
  /\ lrc.desc[2].kind = "offset" /\ lrc.desc[2].n = 1000
  /\ lrc.result.ok
  /\ Len(lrc.result.lines) = 2
  /\ lrc.result.lines[1].time = 1860
  /\ lrc.result.lines[2].time = 3730

\* the text of a lyric line without the white space at its end
RECURSIVE Stripped(_)
Stripped(text) ==
  IF text = <<>> \/ text[Len(text)] # " " THEN text
  ELSE Stripped(SubSeq(text, 1, Len(text) - 1))

NoShift(ds) == \A i \in LinesOfKind(ds, "offset") : ds[i].n = 0

\* C29 as stated: without an offset, each line [mm:ss.hh]text or
\* [mm:ss:hh]text gives one entry, of time (mm*60 + ss)*1000 + hh*10 and of
\* content text, in the order of the text; empty lines and lines that start
\* with # give none.
C29_EntryPerStampedLine ==
  (lrc.pc = "parsed" /\ NoShift(lrc.desc)) =>
    /\ lrc.result.ok
    /\ Len(lrc.result.lines) = Cardinality(LinesOfKind(lrc.desc, "time"))
    /\ \A k \in 1..Len(lrc.result.lines) :
         /\ lrc.result.lines[k].time = StampOf(lrc.desc[StampAt(lrc.desc, k)])
         /\ lrc.result.lines[k].content = lrc.desc[StampAt(lrc.desc, k)].text

\* C29, amended: the content of the entry is text without the white space
\* at its end, which the trim of the line removes.
C29_EntryPerStampedLineTrimmed ==
  (lrc.pc = "parsed" /\ NoShift(lrc.desc)) =>
    /\ lrc.result.ok
    /\ Len(lrc.result.lines) = Cardinality(LinesOfKind(lrc.desc, "time"))
    /\ \A k \in 1..Len(lrc.result.lines) :
         /\ lrc.result.lines[k].time = StampOf(lrc.desc[StampAt(lrc.desc, k)])
         /\ lrc.result.lines[k].content = Stripped(lrc.desc[StampAt(lrc.desc, k)].text)

\* a comment, a line with a dot and a line with a colon and a space at its end
C29_Witness ==
  /\ lrc.pc = "parsed"
  /\ lrc.input = <<<<"#","c">>,
                   <<"[","0","0",":","0","1",".","8","6","]","a">>,
                   <<"[","0","0",":","0","4",":","7","3","]","b"," ">>>>
  /\ lrc.result.ok
  /\ lrc.result.lines = <<[time |-> 1860, content |-> <<"a">>],
                          [time |-> 4730, content |-> <<"b">>]>>

====
